---------------------------- MODULE Spec2Model ----------------------------
(***************************************************************************)
(* Workflow decision core of the Claude Agent System middleware:           *)
(*   - the Bayesian decision network (bayesian-decision-network.py),       *)
(*   - the fuzzy decision system (fuzzy-logic-decision.py),                *)
(*   - the consensus rule of the transparency engine                      *)
(*     (decision-transparency-engine.py).                                  *)
(*                                                                         *)
(* Numbers.  The program computes with Python floats in [0,1].  Here a     *)
(* float x is the integer round(x * Scale) (fixed point, four decimals),   *)
(* every product and quotient is rounded to the nearest unit, as a float   *)
(* operation rounds to the nearest representable value.  A statement       *)
(* "equal within a tolerance" is therefore stated within the rounding of   *)
(* the operations involved (half a unit per rounded operation).            *)
(***************************************************************************)
EXTENDS Integers, Sequences, FiniteSets, TLC

VARIABLES
    cpt,        \* the four conditional probability tables of the network
    task,       \* the TaskAnalysis of the request in progress, or NoTask
    bayes,      \* DecisionResult of select_workflow, or None
    fuzzy,      \* FuzzyDecisionResult of decide_workflow, or None
    consensus,  \* (workflow, confidence) of determine_consensus, or None
    nUpdates,   \* feedback updates applied by the pipeline so far
    fb,         \* the feedback call being repeated (learning runs), or None
    thr,        \* the concurrent callers of one network (concurrent runs), or None
    args,       \* the arguments of a direct call of one method, or None
    ret,        \* what that call returned, or None
    tracker     \* a WorkingIntelligenceTracker (decision history runs), or None

vars == <<cpt, task, bayes, fuzzy, consensus, nUpdates, fb, thr, args, ret,
         tracker>>

\* absent values (records, so that they compare with results and tasks)
None == [none |-> TRUE]
NoTask == [no_task |-> TRUE]

----------------------------------------------------------------------------
(* Fixed-point arithmetic *)

Scale == 100 * 100

\* the float n/100
Pct(n) == (n * Scale) \div 100

Min(a, b) == IF a <= b THEN a ELSE b
Max(a, b) == IF a >= b THEN a ELSE b

\* a * b, rounded to the nearest unit
Mul(a, b) == (a * b + Scale \div 2) \div Scale

\* a / b for b > 0 and a >= 0, rounded to the nearest unit
Div(a, b) == (a * Scale + b \div 2) \div b

----------------------------------------------------------------------------
(* Enumerations and TaskAnalysis *)

ORCHESTRATED == "orchestrated"
COMPLETE_SYSTEM == "complete_system"
TASKIT == "taskit"
AIDEVTASKS == "aidevtasks"

\* WorkflowType, in declaration (iteration) order
WorkflowOrder == <<ORCHESTRATED, COMPLETE_SYSTEM, TASKIT, AIDEVTASKS>>
WorkflowType == {WorkflowOrder[i] : i \in 1..Len(WorkflowOrder)}

LOW == "low"
MEDIUM == "medium"
HIGH == "high"
ComplexityLevel == {LOW, MEDIUM, HIGH}

\* the fields of TaskAnalysis, in declaration order (the order of __dict__)
FactorOrder ==
    <<"technical_complexity", "scope_impact", "risk_factor", "context_load",
      "time_pressure">>
Factors == {FactorOrder[i] : i \in 1..Len(FactorOrder)}

\* the factors that own a conditional probability table
CptFactors == Factors \ {"time_pressure"}

\* TaskAnalysis(...) of the Bayesian module: a plain dataclass, the five
\* scores are stored as given (scores in hundredths)
TaskAnalysis(tc, si, rf, cl, tp) ==
    [f \in Factors |->
        CASE f = "technical_complexity" -> Pct(tc)
          [] f = "scope_impact" -> Pct(si)
          [] f = "risk_factor" -> Pct(rf)
          [] f = "context_load" -> Pct(cl)
          [] OTHER -> Pct(tp)]

\* one score to its discrete level: < 0.33, < 0.67, else
DiscreteLevel(score) ==
    IF score < Pct(33) THEN LOW
    ELSE IF score < Pct(67) THEN MEDIUM
    ELSE HIGH

\* TaskAnalysis.to_discrete_levels
to_discrete_levels(ta) == [f \in Factors |-> DiscreteLevel(ta[f])]

----------------------------------------------------------------------------
(* Bayesian network: priors and conditional probability tables *)

\* priors that favour no workflow: 0.25 each, where the code starts from
\* 0.40, 0.35, 0.15, 0.10
workflow_priors_Uniform == [w \in WorkflowType |-> Pct(25)]

workflow_priors ==
    [w \in WorkflowType |->
        CASE w = ORCHESTRATED -> Pct(40)
          [] w = COMPLETE_SYSTEM -> Pct(35)
          [] w = TASKIT -> Pct(15)
          [] OTHER -> Pct(10)]

\* one workflow's three entries of a table, in hundredths
CptRow(lo, med, hi) ==
    [l \in ComplexityLevel |->
        CASE l = LOW -> Pct(lo) [] l = MEDIUM -> Pct(med) [] OTHER -> Pct(hi)]

\* a table keyed by (workflow, level) from its four rows
CptTable(o, c, t, a) ==
    [k \in WorkflowType \X ComplexityLevel |->
        CASE k[1] = ORCHESTRATED -> o[k[2]]
          [] k[1] = COMPLETE_SYSTEM -> c[k[2]]
          [] k[1] = TASKIT -> t[k[2]]
          [] OTHER -> a[k[2]]]

success_given_workflow_complexity ==
    CptTable(CptRow(95, 72, 35), CptRow(88, 92, 85),
             CptRow(65, 87, 93), CptRow(75, 82, 78))

success_given_workflow_scope ==
    CptTable(CptRow(93, 68, 25), CptRow(85, 89, 82),
             CptRow(70, 85, 95), CptRow(78, 80, 72))

success_given_workflow_risk ==
    CptTable(CptRow(90, 75, 45), CptRow(88, 90, 93),
             CptRow(82, 78, 70), CptRow(80, 77, 65))

success_given_workflow_context ==
    CptTable(CptRow(92, 85, 60), CptRow(88, 82, 65),
             CptRow(85, 90, 95), CptRow(80, 75, 70))

\* initialize_conditional_probability_tables: the table of each factor
InitialCpt ==
    [f \in CptFactors |->
        CASE f = "technical_complexity" -> success_given_workflow_complexity
          [] f = "scope_impact" -> success_given_workflow_scope
          [] f = "risk_factor" -> success_given_workflow_risk
          [] OTHER -> success_given_workflow_context]

\* dict.get without the default: a missing key answers 0.0
Get_DefaultZero(table, key, default) ==
    IF key \in DOMAIN table THEN table[key] ELSE 0

\* dict.get(key, default)
Get(table, key, default) ==
    IF key \in DOMAIN table THEN table[key] ELSE default

\* discrete_levels.get(factor, MEDIUM)
LevelOf(discrete_levels, f) ==
    IF f \in DOMAIN discrete_levels THEN discrete_levels[f] ELSE MEDIUM

\* one factor's contribution to the likelihood
FactorLikelihood(tables, workflow, discrete_levels, f) ==
    Get(tables[f], <<workflow, LevelOf(discrete_levels, f)>>, Pct(50))

\* calculate_likelihood with time_pressure wired in: a HIGH time pressure
\* scales the likelihood of every workflow but ORCHESTRATED by 0.5
calculate_likelihood_TimePressureWired(tables, workflow, discrete_levels) ==
    LET l0 == Scale
        l1 == Mul(l0, FactorLikelihood(tables, workflow, discrete_levels,
                                       "technical_complexity"))
        l2 == Mul(l1, FactorLikelihood(tables, workflow, discrete_levels,
                                       "scope_impact"))
        l3 == Mul(l2, FactorLikelihood(tables, workflow, discrete_levels,
                                       "risk_factor"))
        l4 == Mul(l3, FactorLikelihood(tables, workflow, discrete_levels,
                                       "context_load"))
    IN  IF LevelOf(discrete_levels, "time_pressure") = HIGH
           /\ workflow # ORCHESTRATED
        THEN Mul(l4, Pct(50))
        ELSE l4

\* calculate_likelihood: 1.0 times the four contributions, in order
calculate_likelihood(tables, workflow, discrete_levels) ==
    LET l0 == Scale
        l1 == Mul(l0, FactorLikelihood(tables, workflow, discrete_levels,
                                       "technical_complexity"))
        l2 == Mul(l1, FactorLikelihood(tables, workflow, discrete_levels,
                                       "scope_impact"))
        l3 == Mul(l2, FactorLikelihood(tables, workflow, discrete_levels,
                                       "risk_factor"))
    IN  Mul(l3, FactorLikelihood(tables, workflow, discrete_levels,
                                 "context_load"))

\* sum of a map's values over the workflows in seq
RECURSIVE SumOver(_, _)
SumOver(m, seq) ==
    IF seq = <<>> THEN 0 ELSE m[Head(seq)] + SumOver(m, Tail(seq))

\* likelihood x prior for every workflow
UnnormalizedPosteriors(tables, discrete_levels) ==
    [w \in WorkflowType |->
        Mul(calculate_likelihood(tables, w, discrete_levels),
            workflow_priors[w])]

\* Normalize with the division by the total left out
Normalize_Skipped(unnormalized) == unnormalized

\* Normalize that falls back to the priors, where the code falls back to
\* the uniform distribution
Normalize_FallbackToPriors(unnormalized) ==
    LET total_probability == SumOver(unnormalized, WorkflowOrder)
    IN  IF total_probability > 0
        THEN [w \in WorkflowType |-> Div(unnormalized[w], total_probability)]
        ELSE workflow_priors

\* the normalisation step of calculate_posterior_probabilities
Normalize(unnormalized) ==
    LET total_probability == SumOver(unnormalized, WorkflowOrder)
    IN  IF total_probability > 0
        THEN [w \in WorkflowType |-> Div(unnormalized[w], total_probability)]
        ELSE [w \in WorkflowType |-> Div(Scale, Len(WorkflowOrder) * Scale)]

calculate_posterior_probabilities(tables, discrete_levels) ==
    Normalize(UnnormalizedPosteriors(tables, discrete_levels))

\* max(m, key=m.get) over the keys in seq: the first key of maximal value
RECURSIVE ArgMaxFirst(_, _)
ArgMaxFirst(m, seq) ==
    IF Len(seq) = 1 THEN Head(seq)
    ELSE LET rest == ArgMaxFirst(m, Tail(seq))
         IN  IF m[Head(seq)] >= m[rest] THEN Head(seq) ELSE rest

\* the largest value of m over the keys in S (0.0 when S is empty)
MaxValue(m, S) ==
    IF S = {} THEN 0
    ELSE CHOOSE v \in {m[k] : k \in S} : \A k \in S : m[k] <= v

\* select_workflow
select_workflow(tables, ta) ==
    LET discrete_levels == to_discrete_levels(ta)
        posterior == calculate_posterior_probabilities(tables, discrete_levels)
        best_workflow == ArgMaxFirst(posterior, WorkflowOrder)
        best_confidence == posterior[best_workflow]
        second_best_confidence ==
            MaxValue(posterior, WorkflowType \ {best_workflow})
    IN  [workflow |-> best_workflow,
         confidence |-> best_confidence,
         posterior_probabilities |-> posterior,
         uncertainty |-> Scale - best_confidence,
         decision_margin |-> best_confidence - second_best_confidence]

\* learning_rate = 0.05
learning_rate == Pct(5)

\* UpdatedCell without the final clamp to [0.01, 0.99]
UpdatedCell_NoClamp(current_prob, success) ==
    IF success
    THEN current_prob + Mul(learning_rate, Scale - current_prob)
    ELSE current_prob - Mul(learning_rate, current_prob)

\* UpdatedCell with the success flag ignored: every outcome lowers the cell
UpdatedCell_AlwaysFailure(current_prob, success) ==
    Max(Pct(1), Min(Pct(99), current_prob - Mul(learning_rate, current_prob)))

\* the new value of a cell: nudge toward 1.0 or 0.0, then clamp
UpdatedCell(current_prob, success) ==
    LET new_prob ==
            IF success
            THEN current_prob + Mul(learning_rate, Scale - current_prob)
            ELSE current_prob - Mul(learning_rate, current_prob)
    IN  Max(Pct(1), Min(Pct(99), new_prob))

\* update_beliefs_with_feedback that starts an absent key at the neutral
\* 0.5 and stores it, where the code leaves an absent key alone
update_beliefs_with_feedback_CreatesKey(tables, chosen_workflow, success, ta) ==
    LET discrete_levels == to_discrete_levels(ta)
    IN  [f \in DOMAIN tables |->
            LET key == <<chosen_workflow, discrete_levels[f]>>
            IN  [k \in (DOMAIN tables[f]) \cup {key} |->
                    IF k = key
                    THEN UpdatedCell(Get(tables[f], key, Pct(50)), success)
                    ELSE tables[f][k]]]

\* update_beliefs_with_feedback: one pass over the discrete levels
update_beliefs_with_feedback(tables, chosen_workflow, success, ta) ==
    LET discrete_levels == to_discrete_levels(ta)
    IN  [f \in DOMAIN tables |->
            LET key == <<chosen_workflow, discrete_levels[f]>>
            IN  IF key \in DOMAIN tables[f]
                THEN [tables[f] EXCEPT
                        ![key] = UpdatedCell(tables[f][key], success)]
                ELSE tables[f]]

----------------------------------------------------------------------------
(* Fuzzy decision system *)

\* FuzzyMembershipFunctions.triangular(a, b, c) applied to x
triangular(a, b, c, x) ==
    IF x <= a \/ x >= c THEN 0
    ELSE IF a < x /\ x <= b
         THEN (IF b = a THEN Scale ELSE Div(x - a, b - a))
         ELSE (IF c = b THEN Scale ELSE Div(c - x, c - b))

\* a FuzzySet: its name and the triangle of its membership function
\* (corner points in hundredths)
FuzzySet(name, a, b, c) == [name |-> name, a |-> Pct(a), b |-> Pct(b), c |-> Pct(c)]

\* FuzzySet.membership
membership(fuzzy_set, value) ==
    triangular(fuzzy_set.a, fuzzy_set.b, fuzzy_set.c, value)

technical_complexity_sets ==
    <<FuzzySet("simple", 0, 0, 35), FuzzySet("moderate", 10, 40, 70),
      FuzzySet("complex", 50, 80, 100), FuzzySet("very_complex", 75, 100, 100)>>

scope_impact_sets ==
    <<FuzzySet("narrow", 0, 0, 40), FuzzySet("moderate", 20, 50, 80),
      FuzzySet("broad", 60, 100, 100)>>

risk_factor_sets ==
    <<FuzzySet("low", 0, 0, 30), FuzzySet("medium", 10, 50, 90),
      FuzzySet("high", 70, 100, 100)>>

context_load_sets ==
    <<FuzzySet("light", 0, 0, 30), FuzzySet("moderate", 10, 40, 70),
      FuzzySet("heavy", 50, 80, 100), FuzzySet("overwhelming", 70, 100, 100)>>

time_pressure_sets ==
    <<FuzzySet("relaxed", 0, 0, 25), FuzzySet("normal", 10, 40, 70),
      FuzzySet("urgent", 50, 80, 100), FuzzySet("critical", 80, 100, 100)>>

\* input_fuzzy_sets: factor -> its fuzzy sets, in insertion order
input_fuzzy_sets ==
    [f \in Factors |->
        CASE f = "technical_complexity" -> technical_complexity_sets
          [] f = "scope_impact" -> scope_impact_sets
          [] f = "risk_factor" -> risk_factor_sets
          [] f = "context_load" -> context_load_sets
          [] OTHER -> time_pressure_sets]

\* the linguistic terms of a factor
Terms(f) == {input_fuzzy_sets[f][i].name : i \in 1..Len(input_fuzzy_sets[f])}

\* the fuzzy set of factor f named term
SetNamed(f, term) ==
    LET sets == input_fuzzy_sets[f]
    IN  sets[CHOOSE i \in 1..Len(sets) : sets[i].name = term]

\* fuzzify_inputs: factor -> term -> membership degree, for the factors
\* of crisp_inputs that have fuzzy sets
fuzzify_inputs(crisp_inputs) ==
    [f \in (DOMAIN crisp_inputs) \cap (DOMAIN input_fuzzy_sets) |->
        [term \in Terms(f) |-> membership(SetNamed(f, term), crisp_inputs[f])]]

\* a FuzzyRule; conditions maps a factor to its acceptable terms
FuzzyRule(conditions, conclusion, weight, confidence) ==
    [conditions |-> conditions, conclusion |-> conclusion,
     weight |-> Pct(weight), confidence |-> Pct(confidence)]

\* initialize_fuzzy_rules: the twelve rules, in order
fuzzy_rules ==
    <<FuzzyRule([technical_complexity |-> {"simple"},
                 scope_impact |-> {"narrow"},
                 risk_factor |-> {"low"}],
                ORCHESTRATED, 95, 90),
      FuzzyRule([technical_complexity |-> {"simple", "moderate"},
                 risk_factor |-> {"low"},
                 context_load |-> {"light"}],
                ORCHESTRATED, 80, 75),
      FuzzyRule([technical_complexity |-> {"complex", "very_complex"},
                 risk_factor |-> {"medium", "high"}],
                COMPLETE_SYSTEM, 90, 85),
      FuzzyRule([risk_factor |-> {"high"}],
                COMPLETE_SYSTEM, 95, 90),
      FuzzyRule([scope_impact |-> {"broad"},
                 technical_complexity |-> {"moderate", "complex", "very_complex"}],
                TASKIT, 85, 80),
      FuzzyRule([context_load |-> {"heavy", "overwhelming"}],
                TASKIT, 90, 85),
      FuzzyRule([technical_complexity |-> {"moderate"},
                 scope_impact |-> {"moderate"},
                 risk_factor |-> {"medium"}],
                COMPLETE_SYSTEM, 75, 70),
      FuzzyRule([technical_complexity |-> {"complex", "very_complex"},
                 scope_impact |-> {"broad"},
                 context_load |-> {"heavy", "overwhelming"}],
                TASKIT, 95, 90),
      FuzzyRule([technical_complexity |-> {"simple"},
                 time_pressure |-> {"urgent", "critical"}],
                ORCHESTRATED, 80, 75),
      FuzzyRule([technical_complexity |-> {"moderate", "complex"},
                 scope_impact |-> {"moderate", "broad"},
                 risk_factor |-> {"low", "medium"},
                 time_pressure |-> {"normal", "relaxed"}],
                AIDEVTASKS, 70, 65),
      FuzzyRule([technical_complexity |-> {"very_complex"},
                 scope_impact |-> {"narrow"}],
                COMPLETE_SYSTEM, 80, 75),
      FuzzyRule([time_pressure |-> {"critical"},
                 technical_complexity |-> {"simple", "moderate"},
                 risk_factor |-> {"low"}],
                ORCHESTRATED, 60, 60)>>

\* the largest element of a non-empty set of numbers
SetMax(S) == CHOOSE v \in S : \A u \in S : u <= v
\* the smallest element of a non-empty set of numbers
SetMin(S) == CHOOSE v \in S : \A u \in S : v <= u

\* the maximum membership among the acceptable terms of one factor
MaxMembership(factor_memberships, linguistic_values) ==
    SetMax({0} \cup {factor_memberships[t] :
                        t \in linguistic_values \cap DOMAIN factor_memberships})

\* calculate_rule_activation in which a condition on a factor absent from
\* the inputs blocks the rule, where the code skips such a condition
calculate_rule_activation_AbsentBlocks(rule, fuzzified_inputs) ==
    LET present == (DOMAIN rule.conditions) \cap (DOMAIN fuzzified_inputs)
        condition_strengths ==
            {MaxMembership(fuzzified_inputs[f], rule.conditions[f]) : f \in present}
    IN  IF present = DOMAIN rule.conditions
        THEN Mul(SetMin(condition_strengths), rule.weight)
        ELSE 0

\* calculate_rule_activation
calculate_rule_activation(rule, fuzzified_inputs) ==
    LET present == (DOMAIN rule.conditions) \cap (DOMAIN fuzzified_inputs)
        condition_strengths ==
            {MaxMembership(fuzzified_inputs[f], rule.conditions[f]) : f \in present}
    IN  IF present # {}
        THEN Mul(SetMin(condition_strengths), rule.weight)
        ELSE 0

\* evaluate_fuzzy_rules: the fired rules (activation > 0) in rule order, each
\* as <<position of the rule in fuzzy_rules, activation>>
RECURSIVE EvaluateFrom(_, _)
EvaluateFrom(i, fuzzified_inputs) ==
    IF i > Len(fuzzy_rules) THEN <<>>
    ELSE LET activation_strength ==
                 calculate_rule_activation(fuzzy_rules[i], fuzzified_inputs)
             rest == EvaluateFrom(i + 1, fuzzified_inputs)
         IN  IF activation_strength > 0
             THEN <<[rule |-> i, strength |-> activation_strength]>> \o rest
             ELSE rest

evaluate_fuzzy_rules(fuzzified_inputs) == EvaluateFrom(1, fuzzified_inputs)

\* AggregateFrom with sum aggregation: the contributions of the rules that
\* conclude a workflow are added, where the code keeps the largest
RECURSIVE AggregateFrom_Sum(_, _, _)
AggregateFrom_Sum(rule_activations, i, acc) ==
    IF i > Len(rule_activations) THEN acc
    ELSE LET rule == fuzzy_rules[rule_activations[i].rule]
             workflow == rule.conclusion
             contribution == Mul(rule_activations[i].strength, rule.confidence)
             current_strength ==
                 IF workflow \in DOMAIN acc.strength
                 THEN acc.strength[workflow] ELSE 0
             known == workflow \in DOMAIN acc.strength
         IN  AggregateFrom_Sum(rule_activations, i + 1,
                 [keys |-> IF known THEN acc.keys
                           ELSE Append(acc.keys, workflow),
                  strength |->
                     [w \in (DOMAIN acc.strength) \cup {workflow} |->
                         IF w = workflow
                         THEN current_strength + contribution
                         ELSE acc.strength[w]]])

\* aggregate_rule_outputs: for every workflow some fired rule concludes, the
\* maximum of activation x rule confidence; keys lists the workflows in the
\* order the dict received them
RECURSIVE AggregateFrom(_, _, _)
AggregateFrom(rule_activations, i, acc) ==
    IF i > Len(rule_activations) THEN acc
    ELSE LET rule == fuzzy_rules[rule_activations[i].rule]
             workflow == rule.conclusion
             contribution == Mul(rule_activations[i].strength, rule.confidence)
             current_strength ==
                 IF workflow \in DOMAIN acc.strength
                 THEN acc.strength[workflow] ELSE 0
             known == workflow \in DOMAIN acc.strength
         IN  AggregateFrom(rule_activations, i + 1,
                 [keys |-> IF known THEN acc.keys
                           ELSE Append(acc.keys, workflow),
                  strength |->
                     [w \in (DOMAIN acc.strength) \cup {workflow} |->
                         IF w = workflow
                         THEN Max(current_strength, contribution)
                         ELSE acc.strength[w]]])

aggregate_rule_outputs(rule_activations) ==
    AggregateFrom(rule_activations, 1, [keys |-> <<>>, strength |-> <<>>])

\* defuzzify_outputs that answers "no workflow" when no rule fired, where
\* the code falls back to COMPLETE_SYSTEM at 0.5
defuzzify_outputs_NullFallback(workflow_strengths) ==
    IF workflow_strengths.keys = <<>>
    THEN [workflow |-> "null", confidence |-> 0]
    ELSE LET total_strength ==
                 SumOver(workflow_strengths.strength, workflow_strengths.keys)
             normalized_strengths ==
                 [w \in DOMAIN workflow_strengths.strength |->
                     Div(workflow_strengths.strength[w], total_strength)]
             best_workflow ==
                 ArgMaxFirst(normalized_strengths, workflow_strengths.keys)
         IN  [workflow |-> best_workflow,
              confidence |-> normalized_strengths[best_workflow]]

\* defuzzify_outputs whose fallback reports confidence 0, where the code
\* reports 0.5
defuzzify_outputs_ZeroFallback(workflow_strengths) ==
    IF workflow_strengths.keys = <<>>
    THEN [workflow |-> COMPLETE_SYSTEM, confidence |-> 0]
    ELSE LET total_strength ==
                 SumOver(workflow_strengths.strength, workflow_strengths.keys)
         IN  IF total_strength = 0
             THEN [workflow |-> COMPLETE_SYSTEM, confidence |-> 0]
             ELSE LET normalized_strengths ==
                          [w \in DOMAIN workflow_strengths.strength |->
                              Div(workflow_strengths.strength[w], total_strength)]
                      best_workflow ==
                          ArgMaxFirst(normalized_strengths, workflow_strengths.keys)
                  IN  [workflow |-> best_workflow,
                       confidence |-> normalized_strengths[best_workflow]]

\* defuzzify_outputs: the crisp (workflow, confidence)
defuzzify_outputs(workflow_strengths) ==
    IF workflow_strengths.keys = <<>>
    THEN [workflow |-> COMPLETE_SYSTEM, confidence |-> Pct(50)]
    ELSE LET total_strength ==
                 SumOver(workflow_strengths.strength, workflow_strengths.keys)
         IN  IF total_strength = 0
             THEN [workflow |-> COMPLETE_SYSTEM, confidence |-> Pct(50)]
             ELSE LET normalized_strengths ==
                          [w \in DOMAIN workflow_strengths.strength |->
                              Div(workflow_strengths.strength[w], total_strength)]
                      best_workflow ==
                          ArgMaxFirst(normalized_strengths, workflow_strengths.keys)
                  IN  [workflow |-> best_workflow,
                       confidence |-> normalized_strengths[best_workflow]]

\* the term of highest membership, scanning the sets in order and keeping
\* the first strictly larger one ("unknown" when every membership is 0)
RECURSIVE BestTermFrom(_, _, _, _)
BestTermFrom(sets, factor_memberships, i, best) ==
    IF i > Len(sets) THEN best
    ELSE LET m == factor_memberships[sets[i].name]
         IN  BestTermFrom(sets, factor_memberships, i + 1,
                 IF m > best.max_membership
                 THEN [best_term |-> sets[i].name, max_membership |-> m]
                 ELSE best)

\* the hedge word for a membership degree
Qualifier(max_membership) ==
    IF max_membership >= Pct(80) THEN "very"
    ELSE IF max_membership >= Pct(60) THEN "quite"
    ELSE IF max_membership >= Pct(40) THEN "somewhat"
    ELSE "slightly"

\* generate_linguistic_interpretation: factor -> (qualifier, term, value)
generate_linguistic_interpretation(crisp_inputs, fuzzified_inputs) ==
    [f \in DOMAIN fuzzified_inputs |->
        LET best == BestTermFrom(input_fuzzy_sets[f], fuzzified_inputs[f], 1,
                        [best_term |-> "unknown", max_membership |-> 0])
        IN  [qualifier |-> Qualifier(best.max_membership),
             best_term |-> best.best_term,
             crisp_value |-> crisp_inputs[f]]]

\* the rule_activations map of the result: enumerate() over the fired list,
\* keyed from 0
rule_activation_map(rule_activations) ==
    [i \in 0..(Len(rule_activations) - 1) |-> rule_activations[i + 1].strength]

\* decide_workflow
decide_workflow(crisp_inputs) ==
    LET fuzzified_inputs == fuzzify_inputs(crisp_inputs)
        rule_activations == evaluate_fuzzy_rules(fuzzified_inputs)
        workflow_strengths == aggregate_rule_outputs(rule_activations)
        crisp == defuzzify_outputs(workflow_strengths)
    IN  [workflow |-> crisp.workflow,
         fuzzy_confidence |-> crisp.confidence,
         rule_activations |-> rule_activation_map(rule_activations),
         linguistic_interpretation |->
             generate_linguistic_interpretation(crisp_inputs, fuzzified_inputs),
         defuzzified_scores |-> workflow_strengths.strength]

----------------------------------------------------------------------------
(* Consensus of the transparency engine *)

\* determine_consensus without the agreement bonus of 0.15
determine_consensus_NoBonus(bayesian_result, fuzzy_result) ==
    IF bayesian_result.workflow = fuzzy_result.workflow
    THEN [workflow |-> bayesian_result.workflow,
          confidence |->
              Min(Pct(95),
                  (bayesian_result.confidence + fuzzy_result.fuzzy_confidence) \div 2)]
    ELSE [workflow |-> bayesian_result.workflow,
          confidence |-> Max(Pct(30), bayesian_result.confidence - Pct(20))]

\* determine_consensus that follows the fuzzy result on disagreement
determine_consensus_FuzzyOnDisagreement(bayesian_result, fuzzy_result) ==
    IF bayesian_result.workflow = fuzzy_result.workflow
    THEN [workflow |-> bayesian_result.workflow,
          confidence |->
              Min(Pct(95),
                  (bayesian_result.confidence + fuzzy_result.fuzzy_confidence) \div 2
                      + Pct(15))]
    ELSE [workflow |-> fuzzy_result.workflow,
          confidence |-> Max(Pct(30), fuzzy_result.fuzzy_confidence - Pct(20))]

\* determine_consensus
determine_consensus(bayesian_result, fuzzy_result) ==
    IF bayesian_result.workflow = fuzzy_result.workflow
    THEN [workflow |-> bayesian_result.workflow,
          confidence |->
              Min(Pct(95),
                  (bayesian_result.confidence + fuzzy_result.fuzzy_confidence) \div 2
                      + Pct(15))]
    ELSE LET disagreement_penalty == Pct(20)
         IN  [workflow |-> bayesian_result.workflow,
              confidence |->
                  Max(Pct(30), bayesian_result.confidence - disagreement_penalty)]

----------------------------------------------------------------------------
(* The decision pipeline: one request at a time, feedback after a decision *)

\* feedback updates explored per behaviour
MaxUpdates == 2

\* the requests explored: the scenarios of the specification, the inputs of
\* the modules' own examples, the end points and cut points of the score
\* range, and scores outside [0,1]
Tasks ==
    { TaskAnalysis(10, 10, 10, 10, 10),
      TaskAnalysis(30, 30, 95, 30, 30),
      TaskAnalysis(50, 85, 50, 85, 50),
      TaskAnalysis(70, 40, 80, 30, 60),
      TaskAnalysis(75, 40, 85, 30, 60),
      TaskAnalysis(75, 60, 40, 50, 30),
      TaskAnalysis(0, 0, 0, 0, 0),
      TaskAnalysis(100, 100, 100, 100, 100),
      TaskAnalysis(33, 67, 33, 67, 33),
      TaskAnalysis(20, 50, 20, 20, 90),
      TaskAnalysis(90, 90, 50, 90, 50),
      TaskAnalysis(150, 0 - 20, 50, 50, 50) }

Init ==
    /\ cpt = InitialCpt
    /\ task = NoTask
    /\ bayes = None
    /\ fuzzy = None
    /\ consensus = None
    /\ tracker = None
    /\ nUpdates = 0
    /\ args = None
    /\ ret = None
    /\ fb = None
    /\ thr = None

\* a request arrives: its TaskAnalysis is constructed; the results of the
\* previous request are discarded
NewTask(t) ==
    /\ task = NoTask \/ consensus # None
    /\ task' = t
    /\ bayes' = None
    /\ fuzzy' = None
    /\ consensus' = None
    /\ UNCHANGED <<cpt, nUpdates, fb, thr, args, ret, tracker>>

\* SelectWorkflow that also learns from its own decision: it nudges the
\* cells of the selected workflow as a success would, where select_workflow
\* only reads the tables
SelectWorkflow_Learning ==
    /\ task # NoTask
    /\ bayes = None
    /\ bayes' = select_workflow(cpt, task)
    /\ cpt' = update_beliefs_with_feedback(cpt, select_workflow(cpt, task).workflow,
                                           TRUE, task)
    /\ UNCHANGED <<task, fuzzy, consensus, nUpdates, fb, thr, args, ret, tracker>>

\* BayesianWorkflowDecisionNetwork.select_workflow(task)
SelectWorkflow ==
    /\ task # NoTask
    /\ bayes = None
    /\ bayes' = select_workflow(cpt, task)
    /\ UNCHANGED <<cpt, task, fuzzy, consensus, nUpdates, fb, thr, args, ret, tracker>>

\* FuzzyWorkflowDecisionSystem.decide_workflow(the five scores)
DecideWorkflow ==
    /\ task # NoTask
    /\ fuzzy = None
    /\ fuzzy' = decide_workflow(task)
    /\ UNCHANGED <<cpt, task, bayes, consensus, nUpdates, fb, thr, args, ret, tracker>>

\* DecisionTransparencyEngine.determine_consensus(bayes, fuzzy)
DetermineConsensus ==
    /\ bayes # None
    /\ fuzzy # None
    /\ consensus = None
    /\ consensus' = determine_consensus(bayes, fuzzy)
    /\ UNCHANGED <<cpt, task, bayes, fuzzy, nUpdates, fb, thr, args, ret, tracker>>

\* the outcome of the decided workflow is fed back:
\* update_beliefs_with_feedback(description, workflow, success, task)
Feedback(success) ==
    /\ consensus # None
    /\ nUpdates < MaxUpdates
    /\ cpt' = update_beliefs_with_feedback(cpt, consensus.workflow, success, task)
    /\ nUpdates' = nUpdates + 1
    /\ task' = NoTask
    /\ bayes' = None
    /\ fuzzy' = None
    /\ consensus' = None
    /\ UNCHANGED <<fb, thr, args, ret, tracker>>

Next ==
    \/ \E t \in Tasks : NewTask(t)
    \/ SelectWorkflow
    \/ DecideWorkflow
    \/ DetermineConsensus
    \/ \E success \in BOOLEAN : Feedback(success)

Spec == Init /\ [][Next]_vars

----------------------------------------------------------------------------
(* Learning runs: the same feedback call repeated on one network *)

\* one score in hundredths for each discrete level
LevelScores == {10, 50, 85}

\* one TaskAnalysis for every combination of levels of the four factors
\* that own a table
LearnTasks ==
    {TaskAnalysis(tc, si, rf, cl, 50) :
        tc \in LevelScores, si \in LevelScores,
        rf \in LevelScores, cl \in LevelScores}

LearnInit ==
    /\ cpt = InitialCpt
    /\ task \in LearnTasks
    /\ fb \in [workflow : WorkflowType, success : BOOLEAN]
    /\ bayes = None
    /\ fuzzy = None
    /\ consensus = None
    /\ tracker = None
    /\ nUpdates = 0
    /\ args = None
    /\ ret = None
    /\ thr = None

\* update_beliefs_with_feedback(description, fb.workflow, fb.success, task);
\* a decision computed from the old tables is discarded
LearnFeedback ==
    /\ cpt' = update_beliefs_with_feedback(cpt, fb.workflow, fb.success, task)
    /\ bayes' = None
    /\ UNCHANGED <<task, fuzzy, consensus, nUpdates, fb, thr, args, ret, tracker>>

LearnNext ==
    \/ LearnFeedback
    \/ SelectWorkflow

\* the caller keeps sending the feedback
SpecLearn == LearnInit /\ [][LearnNext]_vars /\ WF_vars(LearnFeedback)

----------------------------------------------------------------------------
(* Consensus runs: determine_consensus on any pair of results *)

\* the confidences explored are the multiples of 1/ConfSteps
ConfSteps == 20
ConfGrid == {(i * Scale) \div ConfSteps : i \in 0..ConfSteps}

ConsensusInit ==
    /\ cpt = InitialCpt
    /\ task = NoTask
    /\ bayes \in [workflow : WorkflowType, confidence : ConfGrid]
    /\ fuzzy \in [workflow : WorkflowType, fuzzy_confidence : ConfGrid]
    /\ consensus = None
    /\ tracker = None
    /\ nUpdates = 0
    /\ args = None
    /\ ret = None
    /\ fb = None
    /\ thr = None

SpecConsensus == ConsensusInit /\ [][DetermineConsensus]_vars

----------------------------------------------------------------------------
(* Concurrent use of one network. The methods take no lock, so calls made
   from different threads interleave between the statements that touch the
   tables: the read of a cell (current_prob = cpt[key]), the write of a cell
   (cpt[key] = ...) and each table lookup of calculate_likelihood. *)

Updaters == {"u1", "u2"}
Reader == "r"

\* the calls that overlap: two feedback calls, or a feedback call and a
\* decision
ConcCalls == {{"u1", "u2"}, {"u1", Reader}}

\* the workflows the feedback calls report on
ConcWorkflows == WorkflowType

\* the request the calls are about (the modules' own example)
ConcTask == TaskAnalysis(70, 40, 80, 30, 60)

\* a feedback call before its first loop iteration ("idle": not called)
UpdaterStart(called, workflow, success) ==
    [pc |-> IF called THEN "read" ELSE "idle", i |-> 1,
     chosen_workflow |-> workflow, success |-> success, current_prob |-> 0]

\* a select_workflow call before its first table lookup; seen holds the
\* cells it has looked up so far, after records the cells of an updater that
\* were looked up after that updater had written them
ReaderStart(called) ==
    [pc |-> IF called THEN "read" ELSE "idle", w |-> 1, i |-> 1,
     seen |-> InitialCpt, after |-> {}]

ConcInit ==
    /\ cpt = InitialCpt
    /\ task = ConcTask
    /\ bayes = None
    /\ fuzzy = None
    /\ consensus = None
    /\ tracker = None
    /\ nUpdates = 0
    /\ args = None
    /\ ret = None
    /\ fb = None
    /\ \E calls \in ConcCalls, w1 \in ConcWorkflows, w2 \in ConcWorkflows,
          s1 \in BOOLEAN, s2 \in BOOLEAN :
          thr = [t \in Updaters \cup {Reader} |->
                    IF t = "u1" THEN UpdaterStart(t \in calls, w1, s1)
                    ELSE IF t = "u2" THEN UpdaterStart(t \in calls, w2, s2)
                    ELSE ReaderStart(t \in calls)]

\* the table cell the loop iteration of updater u is about
UpdaterKey(u) ==
    <<thr[u].chosen_workflow, to_discrete_levels(task)[FactorOrder[thr[u].i]]>>

\* the loop iteration has a cell to update: the factor owns a table and the
\* key is in it
UpdaterHasCell(u) ==
    /\ FactorOrder[thr[u].i] \in CptFactors
    /\ UpdaterKey(u) \in DOMAIN cpt[FactorOrder[thr[u].i]]

\* the next loop iteration, or the end of the call
UpdaterAdvance(u) ==
    IF thr[u].i < Len(FactorOrder)
    THEN [thr[u] EXCEPT !.pc = "read", !.i = thr[u].i + 1]
    ELSE [thr[u] EXCEPT !.pc = "done"]

\* current_prob = cpt[key]
UpdRead(u) ==
    /\ thr[u].pc = "read"
    /\ UpdaterHasCell(u)
    /\ thr' = [thr EXCEPT ![u] =
                 [thr[u] EXCEPT
                    !.pc = "write",
                    !.current_prob = cpt[FactorOrder[thr[u].i]][UpdaterKey(u)]]]
    /\ UNCHANGED <<cpt, task, bayes, fuzzy, consensus, nUpdates, fb, args, ret, tracker>>

\* cpt[key] = max(0.01, min(0.99, new_prob))
UpdWrite(u) ==
    /\ thr[u].pc = "write"
    /\ cpt' = [cpt EXCEPT ![FactorOrder[thr[u].i]][UpdaterKey(u)] =
                 UpdatedCell(thr[u].current_prob, thr[u].success)]
    /\ thr' = [thr EXCEPT ![u] = UpdaterAdvance(u)]
    /\ UNCHANGED <<task, bayes, fuzzy, consensus, nUpdates, fb, args, ret, tracker>>

\* continue: the factor owns no table (time_pressure), or the key is absent
UpdSkip(u) ==
    /\ thr[u].pc = "read"
    /\ ~UpdaterHasCell(u)
    /\ thr' = [thr EXCEPT ![u] = UpdaterAdvance(u)]
    /\ UNCHANGED <<cpt, task, bayes, fuzzy, consensus, nUpdates, fb, args, ret, tracker>>

\* updater u has written the cell of the i-th factor
HasWritten(u, i) ==
    thr[u].pc = "done" \/ thr[u].i > i

\* the factors calculate_likelihood looks up, in order
LikelihoodOrder ==
    <<"technical_complexity", "scope_impact", "risk_factor", "context_load">>

\* one table lookup of calculate_likelihood for workflow number w
RdrRead ==
    /\ thr[Reader].pc = "read"
    /\ thr[Reader].w <= Len(WorkflowOrder)
    /\ LET w == thr[Reader].w
           i == thr[Reader].i
           f == LikelihoodOrder[i]
           key == <<WorkflowOrder[w], to_discrete_levels(task)[f]>>
           last == i = Len(LikelihoodOrder)
       IN  thr' = [thr EXCEPT ![Reader] =
                     [thr[Reader] EXCEPT
                        !.seen = [thr[Reader].seen EXCEPT
                                     ![f][key] = Get(cpt[f], key, Pct(50))],
                        !.after = thr[Reader].after \cup
                                    {<<u, f>> : u \in
                                       {v \in Updaters :
                                          /\ thr[v].chosen_workflow = WorkflowOrder[w]
                                          /\ HasWritten(v, i)}},
                        !.w = IF last THEN w + 1 ELSE w,
                        !.i = IF last THEN 1 ELSE i + 1]]
    /\ UNCHANGED <<cpt, task, bayes, fuzzy, consensus, nUpdates, fb, args, ret, tracker>>

\* the rest of select_workflow, computed from the cells looked up
RdrFinish ==
    /\ thr[Reader].pc = "read"
    /\ thr[Reader].w > Len(WorkflowOrder)
    /\ bayes' = select_workflow(thr[Reader].seen, task)
    /\ thr' = [thr EXCEPT ![Reader] = [thr[Reader] EXCEPT !.pc = "done"]]
    /\ UNCHANGED <<cpt, task, fuzzy, consensus, nUpdates, fb, args, ret, tracker>>

ConcNext ==
    \/ \E u \in Updaters : UpdRead(u)
    \/ \E u \in Updaters : UpdWrite(u)
    \/ \E u \in Updaters : UpdSkip(u)
    \/ RdrRead
    \/ RdrFinish

SpecConc == ConcInit /\ [][ConcNext]_vars

----------------------------------------------------------------------------
(* Fuzzy runs: decide_workflow on any dictionary of crisp inputs *)

\* the crisp values explored for a factor, in hundredths: the end points,
\* a low, the neutral and a high value
CrispLevels == {0, 10, 50, 85, 100}

\* dictionaries of crisp inputs: any subset of the five factors present
CrispInputs ==
    UNION {[D -> {Pct(v) : v \in CrispLevels}] : D \in SUBSET Factors}

FuzzyInit ==
    /\ cpt = InitialCpt
    /\ task \in CrispInputs
    /\ bayes = None
    /\ fuzzy = None
    /\ consensus = None
    /\ tracker = None
    /\ nUpdates = 0
    /\ args = None
    /\ ret = None
    /\ fb = None
    /\ thr = None

SpecFuzzy == FuzzyInit /\ [][DecideWorkflow]_vars

----------------------------------------------------------------------------
(* Table runs: calculate_likelihood and calculate_posterior_probabilities
   called directly, on tables and evidence of any shape. The tables are
   plain attributes of the network and the evidence is a plain dict, so a
   caller can hand over zero cells, tables without some keys and evidence
   without some factors; the methods of the network never produce these. *)

\* the tables with every cell of the workflows in Z set to 0.0 in the
\* technical_complexity table
ZeroedRows(tables, Z) ==
    [tables EXCEPT !["technical_complexity"] =
        [key \in DOMAIN tables["technical_complexity"] |->
            IF key[1] \in Z THEN 0 ELSE tables["technical_complexity"][key]]]

\* the tables without the keys of workflow w in the table of factor f
WithoutKeys(tables, f, w) ==
    [tables EXCEPT ![f] =
        [key \in {k \in DOMAIN tables[f] : k[1] # w} |-> tables[f][key]]]

\* the tables explored: the initial ones, with no, one or all rows zeroed,
\* complete or with one workflow's keys removed from one table
TableVariants ==
    LET zeroed == {ZeroedRows(InitialCpt, Z) :
                      Z \in {{}, {ORCHESTRATED}, WorkflowType}}
    IN  zeroed \cup
        {WithoutKeys(t, f, w) : t \in zeroed, f \in CptFactors, w \in WorkflowType}

\* the evidence explored: every level for any subset of the four factors
\* that own a table
EvidenceVariants ==
    UNION {[D -> ComplexityLevel] : D \in SUBSET CptFactors}

TablesInit ==
    /\ cpt \in TableVariants
    /\ args \in [discrete_levels : EvidenceVariants]
    /\ ret = None
    /\ task = NoTask
    /\ bayes = None
    /\ fuzzy = None
    /\ consensus = None
    /\ tracker = None
    /\ nUpdates = 0
    /\ fb = None
    /\ thr = None

\* calculate_likelihood(workflow, discrete_levels)
CallLikelihood(workflow) ==
    /\ args # None
    /\ ret = None
    /\ ret' = [method |-> "calculate_likelihood", workflow |-> workflow,
               value |-> calculate_likelihood(cpt, workflow, args.discrete_levels)]
    /\ UNCHANGED <<cpt, task, bayes, fuzzy, consensus, nUpdates, fb, thr, args, tracker>>

\* calculate_posterior_probabilities(discrete_levels)
CallPosterior ==
    /\ args # None
    /\ ret = None
    /\ ret' = [method |-> "calculate_posterior_probabilities",
               value |-> calculate_posterior_probabilities(cpt, args.discrete_levels)]
    /\ UNCHANGED <<cpt, task, bayes, fuzzy, consensus, nUpdates, fb, thr, args, tracker>>

TablesNext ==
    \/ \E workflow \in WorkflowType : CallLikelihood(workflow)
    \/ CallPosterior

SpecTables == TablesInit /\ [][TablesNext]_vars

----------------------------------------------------------------------------
(* Call runs: decisions, repeated decisions and feedback on one network,
   for tables that are complete or lack the keys of one workflow in one
   table *)

\* the tables explored: the initial ones, complete or with the keys of
\* ORCHESTRATED removed from one table
CallTables ==
    {InitialCpt} \cup
    {WithoutKeys(InitialCpt, f, ORCHESTRATED) : f \in CptFactors}

\* the time_pressure scores explored, in hundredths
TimePressures == {10, 85}

\* the requests explored: level combinations of the four factors that own
\* a table, each with a low and a high time_pressure
CallTasks ==
    {TaskAnalysis(tc, si, rf, cl, tp) :
        tc \in LevelScores, si \in LevelScores,
        rf \in {10, 85}, cl \in {10, 85}, tp \in TimePressures}

CallsInit ==
    /\ cpt \in CallTables
    /\ task \in CallTasks
    /\ fb \in [workflow : WorkflowType, success : BOOLEAN]
    /\ bayes = None
    /\ fuzzy = None
    /\ consensus = None
    /\ tracker = None
    /\ nUpdates = 0
    /\ args = None
    /\ ret = None
    /\ thr = None

\* the same request is fed a second time through select_workflow and
\* decide_workflow; the results of the first calls are kept in ret
CallAgain ==
    /\ bayes # None
    /\ fuzzy # None
    /\ ret = None
    /\ ret' = [bayes |-> bayes, fuzzy |-> fuzzy]
    /\ bayes' = select_workflow(cpt, task)
    /\ fuzzy' = decide_workflow(task)
    /\ UNCHANGED <<cpt, task, consensus, nUpdates, fb, thr, args, tracker>>

\* update_beliefs_with_feedback(description, fb.workflow, fb.success, task);
\* the Bayesian decisions computed from the old tables are discarded
CallFeedback ==
    /\ nUpdates < MaxUpdates
    /\ cpt' = update_beliefs_with_feedback(cpt, fb.workflow, fb.success, task)
    /\ nUpdates' = nUpdates + 1
    /\ bayes' = None
    /\ ret' = None
    /\ UNCHANGED <<task, fuzzy, consensus, fb, thr, args, tracker>>

CallsNext ==
    \/ SelectWorkflow
    \/ DecideWorkflow
    \/ CallAgain
    \/ CallFeedback

SpecCalls == CallsInit /\ [][CallsNext]_vars

----------------------------------------------------------------------------
(* Uncertainty runs: analyze_uncertainty_breakdown of the transparency
   engine on any triple of results *)

\* floor of the square root of n, searched between lo and hi
RECURSIVE FloorSqrt(_, _, _)
FloorSqrt(n, lo, hi) ==
    IF lo >= hi THEN lo
    ELSE LET mid == (lo + hi + 1) \div 2
         IN  IF mid * mid <= n
             THEN FloorSqrt(n, mid, hi)
             ELSE FloorSqrt(n, lo, mid - 1)

\* math.sqrt on fixed-point numbers, rounded to the nearest unit
Sqrt(x) ==
    LET n == x * Scale
        r == FloorSqrt(n, 0, 2 * Scale)
    IN  IF n - r * r > r THEN r + 1 ELSE r

\* sum(u ** 2 for u in uncertainties)
RECURSIVE SumOfSquares(_)
SumOfSquares(uncertainties) ==
    IF uncertainties = <<>> THEN 0
    ELSE Mul(Head(uncertainties), Head(uncertainties))
         + SumOfSquares(Tail(uncertainties))

\* math.sqrt(sum(u ** 2 for u in uncertainties) / len(uncertainties))
RootMeanSquare(uncertainties) ==
    Sqrt((SumOfSquares(uncertainties) + Len(uncertainties) \div 2)
         \div Len(uncertainties))

\* calculate_total_uncertainty
calculate_total_uncertainty(bayesian_result, fuzzy_result, risk_assessment) ==
    LET uncertainties ==
            << bayesian_result.uncertainty,
               Scale - fuzzy_result.fuzzy_confidence,
               risk_assessment.value_at_risk_95 - risk_assessment.expected_risk >>
        total_uncertainty == RootMeanSquare(uncertainties)
    IN  Min(Scale, total_uncertainty)

\* identify_uncertainty_sources: the sources in the order they are appended
identify_uncertainty_sources(bayesian_result, fuzzy_result) ==
    LET sources ==
            (IF bayesian_result.decision_margin < Pct(20)
             THEN <<"Close decision boundary between alternative workflows">>
             ELSE <<>>)
            \o (IF bayesian_result.workflow # fuzzy_result.workflow
                THEN <<"Disagreement between Bayesian and Fuzzy methods">>
                ELSE <<>>)
            \o (IF bayesian_result.uncertainty > Pct(30)
                THEN <<"High inherent uncertainty in Bayesian posterior">>
                ELSE <<>>)
            \o (IF fuzzy_result.fuzzy_confidence < Pct(70)
                THEN <<"Low confidence from fuzzy inference system">>
                ELSE <<>>)
    IN  IF sources = <<>>
        THEN <<"Low uncertainty - high confidence decision">>
        ELSE sources

\* analyze_uncertainty_breakdown
analyze_uncertainty_breakdown(bayesian_result, fuzzy_result, risk_assessment) ==
    [bayesian_uncertainty |-> bayesian_result.uncertainty,
     fuzzy_uncertainty |-> Scale - fuzzy_result.fuzzy_confidence,
     method_disagreement |->
        IF bayesian_result.workflow # fuzzy_result.workflow THEN Pct(20) ELSE 0,
     risk_uncertainty |->
        risk_assessment.value_at_risk_95 - risk_assessment.expected_risk,
     decision_boundary_uncertainty |-> Scale - bayesian_result.decision_margin,
     total_uncertainty |->
        calculate_total_uncertainty(bayesian_result, fuzzy_result, risk_assessment),
     uncertainty_sources |->
        identify_uncertainty_sources(bayesian_result, fuzzy_result)]

\* the results explored: two workflows on either side, uncertainties and
\* confidences over [0,1] (0.22, 0.23 and 0.74 are those of the engine's
\* own example), and risk summaries whose 95th percentile is not below the
\* mean
BayesianResults ==
    [workflow : {COMPLETE_SYSTEM, ORCHESTRATED},
     uncertainty : {Pct(0), Pct(22), Pct(50), Pct(100)},
     decision_margin : {Pct(10), Pct(23)}]

FuzzyResults ==
    [workflow : {COMPLETE_SYSTEM, ORCHESTRATED},
     fuzzy_confidence : {Pct(0), Pct(50), Pct(74), Pct(100)}]

RiskAssessments ==
    {r \in [value_at_risk_95 : {Pct(30), Pct(60), Pct(100)},
            expected_risk : {Pct(0), Pct(30), Pct(40)}] :
        r.value_at_risk_95 >= r.expected_risk}

UncertaintyInit ==
    /\ cpt = InitialCpt
    /\ task = NoTask
    /\ bayes = None
    /\ fuzzy = None
    /\ consensus = None
    /\ tracker = None
    /\ nUpdates = 0
    /\ fb = None
    /\ thr = None
    /\ args \in [bayesian_result : BayesianResults,
                 fuzzy_result : FuzzyResults,
                 risk_assessment : RiskAssessments]
    /\ ret = None

\* analyze_uncertainty_breakdown(bayesian_result, fuzzy_result, risk_assessment)
AnalyzeUncertainty ==
    /\ args # None
    /\ ret = None
    /\ ret' = analyze_uncertainty_breakdown(args.bayesian_result,
                                            args.fuzzy_result,
                                            args.risk_assessment)
    /\ UNCHANGED <<cpt, task, bayes, fuzzy, consensus, nUpdates, fb, thr, args, tracker>>

SpecUncertainty == UncertaintyInit /\ [][AnalyzeUncertainty]_vars

----------------------------------------------------------------------------
(* The Monte Carlo risk simulation of the risk assessment engine (SpecRisk) *)

\* TaskType values of the risk engine whose base risks are explored
BUG_FIX == "bug_fix"
ARCHITECTURE_CHANGE == "architecture_change"
DOCUMENTATION == "documentation"

\* self.base_task_risks
base_task_risks ==
    [t \in {BUG_FIX, "feature_development", "refactoring",
            ARCHITECTURE_CHANGE, "optimization", "security", "ui_change",
            "testing", DOCUMENTATION} |->
        CASE t = BUG_FIX -> Pct(15)
          [] t = "feature_development" -> Pct(25)
          [] t = "refactoring" -> Pct(35)
          [] t = ARCHITECTURE_CHANGE -> Pct(50)
          [] t = "optimization" -> Pct(30)
          [] t = "security" -> Pct(40)
          [] t = "ui_change" -> Pct(20)
          [] t = "testing" -> Pct(10)
          [] t = DOCUMENTATION -> Pct(5)]

\* self.risk_correlations: how much one risk amplifies another
risk_correlations ==
    [r \in {"breaking_changes", "integration_failure",
            "performance_degradation"} |->
        CASE r = "breaking_changes" ->
                [s \in {"integration_failure", "performance_degradation",
                        "security_vulnerability"} |->
                    CASE s = "integration_failure" -> Pct(60)
                      [] s = "performance_degradation" -> Pct(30)
                      [] s = "security_vulnerability" -> Pct(20)]
          [] r = "integration_failure" ->
                [s \in {"data_corruption", "service_disruption"} |->
                    CASE s = "data_corruption" -> Pct(40)
                      [] s = "service_disruption" -> Pct(70)]
          [] r = "performance_degradation" ->
                [s \in {"user_experience_impact", "resource_exhaustion"} |->
                    CASE s = "user_experience_impact" -> Pct(80)
                      [] s = "resource_exhaustion" -> Pct(50)]]

\* get_risk_correlation that reads the table in the given direction only,
\* where the code also tries the opposite direction
get_risk_correlation_OneWay(risk1, risk2) ==
    IF risk1 \in DOMAIN risk_correlations
       /\ risk2 \in DOMAIN risk_correlations[risk1]
    THEN risk_correlations[risk1][risk2]
    ELSE Pct(10)

\* get_risk_correlation: the table read in either direction, else 0.1
get_risk_correlation(risk1, risk2) ==
    IF risk1 \in DOMAIN risk_correlations
       /\ risk2 \in DOMAIN risk_correlations[risk1]
    THEN risk_correlations[risk1][risk2]
    ELSE IF risk2 \in DOMAIN risk_correlations
            /\ risk1 \in DOMAIN risk_correlations[risk2]
         THEN risk_correlations[risk2][risk1]
         ELSE Pct(10)

\* max(sampled_risks) of a non-empty list
RECURSIVE MaxRisk(_)
MaxRisk(sampled_risks) ==
    IF Len(sampled_risks) = 1
    THEN Head(sampled_risks)
    ELSE Max(Head(sampled_risks), MaxRisk(Tail(sampled_risks)))

\* the two nested loops of combine_correlated_risks from the pair (i, j) on:
\* the sum of amplification * 0.1 over the pairs i < j
RECURSIVE Amplification(_, _, _, _)
Amplification(sampled_risks, risk_factors, i, j) ==
    IF i > Len(sampled_risks)
    THEN 0
    ELSE IF j > Len(sampled_risks)
         THEN Amplification(sampled_risks, risk_factors, i + 1, i + 2)
         ELSE LET correlation ==
                      get_risk_correlation(risk_factors[i].name,
                                           risk_factors[j].name)
                  amplification ==
                      Mul(Mul(sampled_risks[i], sampled_risks[j]), correlation)
              IN  Mul(amplification, Pct(10))
                  + Amplification(sampled_risks, risk_factors, i, j + 1)

\* combine_correlated_risks if correlated risks offset each other: the
\* pairwise term is subtracted from the maximum instead of added
combine_correlated_risks_Offsetting(sampled_risks, risk_factors) ==
    IF sampled_risks = <<>>
    THEN 0
    ELSE Min(Scale, MaxRisk(sampled_risks)
                    - Amplification(sampled_risks, risk_factors, 1, 2))

\* combine_correlated_risks
combine_correlated_risks(sampled_risks, risk_factors) ==
    IF sampled_risks = <<>>
    THEN 0
    ELSE Min(Scale, MaxRisk(sampled_risks)
                    + Amplification(sampled_risks, risk_factors, 1, 2))

\* one iteration of the loop of monte_carlo_risk_simulation, for the
\* probabilities that np.random.beta returned for the factors
SimulateOnce(risk_factors, task_type, sampled_probability) ==
    LET base_risk == Get(base_task_risks, task_type, Pct(25))
        sampled_risks ==
            [i \in 1..Len(risk_factors) |->
                Mul(sampled_probability[i], risk_factors[i].impact)]
        combined_risk == combine_correlated_risks(sampled_risks, risk_factors)
        total_risk == base_risk + Mul(combined_risk, Scale - base_risk)
    IN  [sampled_probability |-> sampled_probability,
         sampled_risks |-> sampled_risks,
         combined_risk |-> combined_risk,
         total_risk |-> total_risk,
         risk_sample |-> Min(Scale, total_risk)]

\* the values a draw of np.random.beta may take: the Beta distribution has
\* the whole of [0, 1] as support whatever alpha and beta are
SampledProbabilities == {Pct(0), Pct(30), Pct(60), Pct(100)}

\* the names of the factors explored: two pairs listed in the correlation
\* table and one pair that is not
RiskNames ==
    {"breaking_changes", "integration_failure", "performance_degradation"}

\* RiskFactor: the name and the impact, the two fields the combination
\* reads once the probability is drawn
RiskFactors == [name : RiskNames, impact : {Pct(50), Pct(100)}]

\* the lists of risk factors with distinct names, in every order
RiskFactorLists ==
    {l \in UNION {[1..n -> RiskFactors] : n \in 0..Cardinality(RiskNames)} :
        \A i, j \in DOMAIN l : i # j => l[i].name # l[j].name}

RiskTaskTypes == {BUG_FIX, ARCHITECTURE_CHANGE, DOCUMENTATION}

RiskInit ==
    /\ cpt = InitialCpt
    /\ task = NoTask
    /\ bayes = None
    /\ fuzzy = None
    /\ consensus = None
    /\ tracker = None
    /\ nUpdates = 0
    /\ fb = None
    /\ thr = None
    /\ args \in [risk_factors : RiskFactorLists, task_type : RiskTaskTypes]
    /\ ret = None

\* monte_carlo_risk_simulation(risk_factors, task_type): one iteration of
\* its loop, which carries nothing over from the iterations before it; ret
\* is the sample it appends
MonteCarloSample ==
    /\ args # None
    /\ ret = None
    /\ \E sampled_probability \in
            [1..Len(args.risk_factors) -> SampledProbabilities] :
          ret' = SimulateOnce(args.risk_factors, args.task_type,
                              sampled_probability)
    /\ UNCHANGED <<cpt, task, bayes, fuzzy, consensus, nUpdates, fb, thr, args, tracker>>

SpecRisk == RiskInit /\ [][MonteCarloSample]_vars

----------------------------------------------------------------------------
(* Membership runs: a triangular membership function applied to a value *)

\* the corner points and inputs explored, in hundredths: the tenths of
\* [0, 1] and the other corner points of the sets of initialize_fuzzy_sets
TrianglePoints == {10 * k : k \in 0..10} \cup {25, 35, 75}

\* the calls explored: triangular(a, b, c) with a <= b <= c, among them
\* every set of initialize_fuzzy_sets, applied to x
MembershipCalls ==
    {m \in [a : {Pct(v) : v \in TrianglePoints},
            b : {Pct(v) : v \in TrianglePoints},
            c : {Pct(v) : v \in TrianglePoints},
            x : {Pct(v) : v \in TrianglePoints}] :
        m.a <= m.b /\ m.b <= m.c}

MembershipInit ==
    /\ cpt = InitialCpt
    /\ task = NoTask
    /\ bayes = None
    /\ fuzzy = None
    /\ consensus = None
    /\ tracker = None
    /\ nUpdates = 0
    /\ fb = None
    /\ thr = None
    /\ args \in MembershipCalls
    /\ ret = None

\* FuzzyMembershipFunctions.triangular(a, b, c)(x)
ApplyTriangular ==
    /\ args # None
    /\ ret = None
    /\ ret' = [degree |-> triangular(args.a, args.b, args.c, args.x)]
    /\ UNCHANGED <<cpt, task, bayes, fuzzy, consensus, nUpdates, fb, thr, args, tracker>>

SpecMembership == MembershipInit /\ [][ApplyTriangular]_vars

----------------------------------------------------------------------------
(* Sensitivity analysis of the transparency engine (SpecSensitivity) *)

\* sensitivity_config['perturbation_ranges'], in order
perturbation_ranges ==
    <<0 - Pct(30), 0 - Pct(20), 0 - Pct(10), Pct(10), Pct(20), Pct(30)>>

\* the factor_importance table of simulate_decision_change; 0.15 for a
\* factor name it does not list
factor_importance(factor_name) ==
    CASE factor_name = "technical_complexity" -> Pct(25)
      [] factor_name = "scope_impact" -> Pct(20)
      [] factor_name = "risk_factor" -> Pct(30)
      [] factor_name = "context_load" -> Pct(20)
      [] factor_name = "time_pressure" -> Pct(5)
      [] OTHER -> Pct(15)

\* a workflow_change_threshold of 0.04, below the largest approximated
\* change the configured perturbations produce
workflow_change_threshold_Fine == Pct(4)

\* workflow_change_threshold of simulate_decision_change
workflow_change_threshold == Pct(15)

\* max(alternatives, key=alternatives.get) over dict(base_result.alternatives):
\* the first alternative of highest probability
RECURSIVE BestAlternative(_, _, _)
BestAlternative(alternatives, i, best) ==
    IF i > Len(alternatives) THEN alternatives[best].workflow
    ELSE BestAlternative(alternatives, i + 1,
            IF alternatives[i].probability > alternatives[best].probability
            THEN i ELSE best)

\* simulate_decision_change that flags a change already when the
\* approximated change reaches the threshold, where the code requires it to
\* exceed the threshold
simulate_decision_change_AtThreshold(base_result, factor_name, perturbation) ==
    LET confidence_change ==
            Mul(Mul(perturbation, factor_importance(factor_name)), Pct(50))
        new_confidence ==
            Max(Pct(10), Min(Pct(95), base_result.confidence + confidence_change))
        workflow_changed ==
            (IF confidence_change < 0 THEN 0 - confidence_change
             ELSE confidence_change) >= workflow_change_threshold
        new_workflow ==
            IF workflow_changed /\ base_result.alternatives # <<>>
            THEN BestAlternative(base_result.alternatives, 1, 1)
            ELSE base_result.workflow
    IN  [workflow |-> new_workflow,
         confidence |-> new_confidence,
         workflow_changed |-> workflow_changed]

\* simulate_decision_change
simulate_decision_change(base_result, factor_name, perturbation) ==
    LET confidence_change ==
            Mul(Mul(perturbation, factor_importance(factor_name)), Pct(50))
        new_confidence ==
            Max(Pct(10), Min(Pct(95), base_result.confidence + confidence_change))
        workflow_changed ==
            (IF confidence_change < 0 THEN 0 - confidence_change
             ELSE confidence_change) > workflow_change_threshold
        new_workflow ==
            IF workflow_changed /\ base_result.alternatives # <<>>
            THEN BestAlternative(base_result.alternatives, 1, 1)
            ELSE base_result.workflow
    IN  [workflow |-> new_workflow,
         confidence |-> new_confidence,
         workflow_changed |-> workflow_changed]

\* one entry of perturbation_results
PerturbationResult(factor_name, base_score, base_result, perturbation) ==
    LET simulated_result ==
            simulate_decision_change(base_result, factor_name, perturbation)
    IN  [perturbation |-> perturbation,
         new_score |-> Max(0, Min(Scale, base_score + perturbation)),
         workflow_changed |-> simulated_result.workflow # base_result.workflow,
         confidence_change |-> simulated_result.confidence - base_result.confidence,
         new_workflow |-> simulated_result.workflow]

\* statistics.mean of a non-empty sequence, rounded to the nearest unit
RECURSIVE SumSeq(_)
SumSeq(s) == IF s = <<>> THEN 0 ELSE Head(s) + SumSeq(Tail(s))

Mean(s) == (2 * SumSeq(s) + Len(s)) \div (2 * Len(s))

\* classify_sensitivity_level
classify_sensitivity_level(sensitivity_score) ==
    IF sensitivity_score >= Pct(70) THEN "Very High Sensitivity"
    ELSE IF sensitivity_score >= Pct(50) THEN "High Sensitivity"
    ELSE IF sensitivity_score >= Pct(30) THEN "Moderate Sensitivity"
    ELSE IF sensitivity_score >= Pct(15) THEN "Low Sensitivity"
    ELSE "Very Low Sensitivity"

\* analyze_factor_sensitivity
analyze_factor_sensitivity(factor_name, base_score, base_result) ==
    LET perturbation_results ==
            [k \in 1..Len(perturbation_ranges) |->
                PerturbationResult(factor_name, base_score, base_result,
                                   perturbation_ranges[k])]
        workflow_changes ==
            Cardinality({k \in 1..Len(perturbation_results) :
                            perturbation_results[k].workflow_changed})
        avg_confidence_change ==
            Mean([k \in 1..Len(perturbation_results) |->
                    IF perturbation_results[k].confidence_change < 0
                    THEN 0 - perturbation_results[k].confidence_change
                    ELSE perturbation_results[k].confidence_change])
        workflow_change_frequency ==
            Div(workflow_changes * Scale, Len(perturbation_results) * Scale)
        sensitivity_score ==
            workflow_change_frequency + Mul(avg_confidence_change, Pct(50))
    IN  [sensitivity_score |-> sensitivity_score,
         perturbation_results |-> perturbation_results,
         workflow_change_frequency |-> workflow_change_frequency,
         average_confidence_impact |-> avg_confidence_change,
         sensitivity_level |-> classify_sensitivity_level(sensitivity_score)]

\* the factor names a dictionary of scores may hold, in insertion order: the
\* five factors and a name the importance table does not list
ScoreOrder == FactorOrder \o <<"novelty">>

\* the keys of a dictionary of scores, in insertion order
KeysInOrder(scores) == SelectSeq(ScoreOrder, LAMBDA f : f \in DOMAIN scores)

\* min(factor_scores, key=...): the first key of lowest value
RECURSIVE ArgMinFirst(_, _)
ArgMinFirst(m, seq) ==
    IF Len(seq) = 1 THEN seq[1]
    ELSE LET rest == ArgMinFirst(m, Tail(seq))
         IN  IF m[seq[1]] <= m[rest] THEN seq[1] ELSE rest

\* calculate_overall_sensitivity
calculate_overall_sensitivity(sensitivity_results) ==
    LET names == KeysInOrder(sensitivity_results)
        score == [f \in DOMAIN sensitivity_results |->
                     sensitivity_results[f].sensitivity_score]
        overall_score == Mean([k \in 1..Len(names) |-> score[names[k]]])
    IN  [stability |-> Scale - overall_score,
         most_sensitive |-> ArgMaxFirst(score, names),
         least_sensitive |-> ArgMinFirst(score, names)]

\* classify_decision_stability
classify_decision_stability(stability_score) ==
    IF stability_score >= Pct(85) THEN "Very Stable"
    ELSE IF stability_score >= Pct(70) THEN "Stable"
    ELSE IF stability_score >= Pct(55) THEN "Moderately Stable"
    ELSE IF stability_score >= Pct(40) THEN "Unstable"
    ELSE "Very Unstable"

\* perform_sensitivity_analysis, on the five_dimensional_scores of the
\* decision input
perform_sensitivity_analysis(five_dimensional_scores, bayesian_result) ==
    LET sensitivity_results ==
            [f \in DOMAIN five_dimensional_scores |->
                analyze_factor_sensitivity(f, five_dimensional_scores[f],
                                           bayesian_result)]
        overall_sensitivity == calculate_overall_sensitivity(sensitivity_results)
    IN  [factor_sensitivities |-> sensitivity_results,
         overall_stability |-> overall_sensitivity.stability,
         most_sensitive_factor |-> overall_sensitivity.most_sensitive,
         least_sensitive_factor |-> overall_sensitivity.least_sensitive,
         stability_classification |->
            classify_decision_stability(overall_sensitivity.stability)]

\* the base results explored: confidences below, at and above the bounds
\* 0.1 and 0.95 of the simulated confidence, without alternatives or with
\* two
BaseResults ==
    [workflow : {COMPLETE_SYSTEM, TASKIT},
     confidence : {Pct(5), Pct(10), Pct(12), Pct(50), Pct(93), Pct(95), Pct(98)},
     alternatives : {<<>>,
                     <<[workflow |-> ORCHESTRATED, probability |-> Pct(30)],
                       [workflow |-> AIDEVTASKS, probability |-> Pct(10)]>>}]

\* the perturbations of direct calls of simulate_decision_change: those of
\* the configuration and larger ones, up to where the approximated change
\* reaches and passes the threshold
CallPerturbations ==
    {perturbation_ranges[k] : k \in 1..Len(perturbation_ranges)}
    \cup {0 - Pct(200), 0 - Pct(100), Pct(100), Pct(150), Pct(200)}

\* the dictionaries of scores explored: any non-empty set of the names
\* (statistics.mean raises on an empty one), each scored 0.2 or 0.9
ScoreDicts ==
    UNION {[D -> {Pct(20), Pct(90)}] :
              D \in (SUBSET {ScoreOrder[k] : k \in 1..Len(ScoreOrder)}) \ {{}}}

SensitivityInit ==
    /\ cpt = InitialCpt
    /\ task = NoTask
    /\ bayes = None
    /\ fuzzy = None
    /\ consensus = None
    /\ tracker = None
    /\ nUpdates = 0
    /\ fb = None
    /\ thr = None
    /\ args \in [base_result : BaseResults,
                 factor_name : {ScoreOrder[k] : k \in 1..Len(ScoreOrder)},
                 perturbation : CallPerturbations]
               \cup [five_dimensional_scores : ScoreDicts,
                     bayesian_result : BaseResults]
    /\ ret = None

\* simulate_decision_change(base_result, factor_name, perturbation)
SimulateDecisionChange ==
    /\ args # None
    /\ "perturbation" \in DOMAIN args
    /\ ret = None
    /\ ret' = simulate_decision_change(args.base_result, args.factor_name,
                                       args.perturbation)
    /\ UNCHANGED <<cpt, task, bayes, fuzzy, consensus, nUpdates, fb, thr, args, tracker>>

\* perform_sensitivity_analysis(decision_input, bayesian_result)
PerformSensitivityAnalysis ==
    /\ args # None
    /\ "five_dimensional_scores" \in DOMAIN args
    /\ ret = None
    /\ ret' = perform_sensitivity_analysis(args.five_dimensional_scores,
                                           args.bayesian_result)
    /\ UNCHANGED <<cpt, task, bayes, fuzzy, consensus, nUpdates, fb, thr, args, tracker>>

SensitivityNext == SimulateDecisionChange \/ PerformSensitivityAnalysis

SpecSensitivity == SensitivityInit /\ [][SensitivityNext]_vars

----------------------------------------------------------------------------
(* The streamlined decision engine (SpecStreamlined) *)

\* TaskAnalysis of the streamlined engine: __post_init__ clamps every score
\* to [0, 1]
StreamlinedTaskAnalysis(tc, si, rf, cl, tp) ==
    [technical_complexity |-> Max(0, Min(Scale, tc)),
     scope_impact |-> Max(0, Min(Scale, si)),
     risk_factor |-> Max(0, Min(Scale, rf)),
     context_load |-> Max(0, Min(Scale, cl)),
     time_pressure |-> Max(0, Min(Scale, tp))]

\* critical_thresholds: CONTEXT_OVERFLOW_THRESHOLD, CRITICAL_RISK_THRESHOLD
\* and CRITICAL_TIME_THRESHOLD
critical_thresholds ==
    [context_overflow |-> Pct(80), critical_risk |-> Pct(80),
     critical_time |-> Pct(90)]

\* the condition of the rule named name, applied to an analysis
RuleCondition(name, analysis) ==
    CASE name = "Context Overflow Protection" ->
            analysis.context_load > critical_thresholds.context_overflow
      [] name = "Critical Risk Protection" ->
            analysis.risk_factor > critical_thresholds.critical_risk
      [] name = "Simple Low-Risk Task" ->
            /\ analysis.technical_complexity < Pct(30)
            /\ analysis.scope_impact < Pct(40)
            /\ analysis.risk_factor < Pct(30)
      [] name = "Large Scope Task" ->
            /\ analysis.scope_impact > Pct(60)
            /\ analysis.context_load > Pct(50)
      [] name = "High-Risk Complex Task" ->
            /\ analysis.risk_factor > Pct(50)
            /\ analysis.technical_complexity > Pct(40)
      [] name = "Feature Development Task" ->
            /\ Pct(40) <= analysis.technical_complexity
            /\ analysis.technical_complexity <= Pct(70)
            /\ Pct(40) <= analysis.scope_impact
            /\ analysis.scope_impact <= Pct(70)
            /\ analysis.risk_factor < Pct(60)

\* decision_rules, in order
decision_rules ==
    <<[name |-> "Context Overflow Protection", workflow |-> TASKIT,
       confidence |-> Pct(95), priority |-> 1],
      [name |-> "Critical Risk Protection", workflow |-> COMPLETE_SYSTEM,
       confidence |-> Pct(90), priority |-> 1],
      [name |-> "Simple Low-Risk Task", workflow |-> ORCHESTRATED,
       confidence |-> Pct(85), priority |-> 2],
      [name |-> "Large Scope Task", workflow |-> TASKIT,
       confidence |-> Pct(80), priority |-> 2],
      [name |-> "High-Risk Complex Task", workflow |-> COMPLETE_SYSTEM,
       confidence |-> Pct(85), priority |-> 2],
      [name |-> "Feature Development Task", workflow |-> AIDEVTASKS,
       confidence |-> Pct(75), priority |-> 2]>>

\* workflow_factor_weights (WORKFLOW_WEIGHTS), in hundredths
FactorWeights(tc, si, rf, cl, tp) ==
    [technical_complexity |-> Pct(tc), scope_impact |-> Pct(si),
     risk_factor |-> Pct(rf), context_load |-> Pct(cl), time_pressure |-> Pct(tp)]

workflow_factor_weights ==
    [w \in WorkflowType |->
        CASE w = ORCHESTRATED -> FactorWeights(40, 20, 20, 10, 10)
          [] w = COMPLETE_SYSTEM -> FactorWeights(25, 20, 35, 15, 5)
          [] w = TASKIT -> FactorWeights(15, 35, 15, 30, 5)
          [] w = AIDEVTASKS -> FactorWeights(30, 25, 20, 15, 10)]

\* the weighted sum of the five scores for a workflow
WeightedScore(task_analysis, workflow) ==
    LET weights == workflow_factor_weights[workflow]
    IN  Mul(task_analysis.technical_complexity, weights.technical_complexity)
        + Mul(task_analysis.scope_impact, weights.scope_impact)
        + Mul(task_analysis.risk_factor, weights.risk_factor)
        + Mul(task_analysis.context_load, weights.context_load)
        + Mul(task_analysis.time_pressure, weights.time_pressure)

\* insertion of x into a sequence sorted by decreasing value, behind the
\* elements of equal value (list.sort(reverse=True) is stable)
RECURSIVE InsertDescending(_, _)
InsertDescending(x, sorted) ==
    IF sorted = <<>> THEN <<x>>
    ELSE IF Head(sorted).value >= x.value
         THEN <<Head(sorted)>> \o InsertDescending(x, Tail(sorted))
         ELSE <<x>> \o sorted

\* sort(key=value, reverse=True)
RECURSIVE SortDescending(_)
SortDescending(seq) ==
    IF seq = <<>> THEN <<>>
    ELSE InsertDescending(seq[Len(seq)],
                          SortDescending(SubSeq(seq, 1, Len(seq) - 1)))

\* fallback_scoring_selection
fallback_scoring_selection(task_analysis) ==
    LET workflow_scores ==
            [w \in WorkflowType |-> WeightedScore(task_analysis, w)]
        best_workflow == ArgMaxFirst(workflow_scores, WorkflowOrder)
        scores ==
            SortDescending([i \in 1..Len(WorkflowOrder) |->
                               [value |-> workflow_scores[WorkflowOrder[i]]]])
        margin == scores[1].value - scores[2].value
    IN  [workflow |-> best_workflow,
         confidence |-> Min(Pct(90), Pct(50) + margin),
         primary_reasoning |-> "Weighted factor analysis"]

\* calculate_workflow_suitability
calculate_workflow_suitability(task_analysis, workflow) ==
    Max(0, Min(Scale, WeightedScore(task_analysis, workflow)))

\* calculate_alternatives: the other workflows of suitability above 0.2,
\* most suitable first, at most three
calculate_alternatives(task_analysis, selected_workflow) ==
    LET candidates ==
            SelectSeq([i \in 1..Len(WorkflowOrder) |->
                          [workflow |-> WorkflowOrder[i],
                           value |-> calculate_workflow_suitability(
                                         task_analysis, WorkflowOrder[i])]],
                      LAMBDA c : c.workflow # selected_workflow
                                 /\ c.value > Pct(20))
        alternatives == SortDescending(candidates)
    IN  SubSeq(alternatives, 1, Min(3, Len(alternatives)))

\* identify_decision_factors: the factors named, without their figures
identify_decision_factors(task_analysis, workflow) ==
    (IF task_analysis.technical_complexity > Pct(60)
     THEN <<"High technical complexity">> ELSE <<>>)
    \o (IF task_analysis.scope_impact > Pct(60)
        THEN <<"Large scope impact">> ELSE <<>>)
    \o (IF task_analysis.risk_factor > Pct(50)
        THEN <<"Significant risk factors">> ELSE <<>>)
    \o (IF task_analysis.context_load > Pct(60)
        THEN <<"High context load">> ELSE <<>>)
    \o (IF task_analysis.time_pressure > Pct(50)
        THEN <<"Time pressure detected">> ELSE <<>>)
    \o <<CASE workflow = ORCHESTRATED -> "Suitable for streamlined execution"
           [] workflow = COMPLETE_SYSTEM -> "Requires comprehensive validation"
           [] workflow = TASKIT -> "Benefits from phase-based approach"
           [] workflow = AIDEVTASKS -> "Feature development with PRD approach">>

\* the rules whose condition holds, in rule order
MatchingRules(task_analysis) ==
    SelectSeq(decision_rules, LAMBDA rule : RuleCondition(rule.name, task_analysis))

\* FirstByPriority that prefers the most specific rule: the first matching
\* rule of the highest priority number, where the code takes the lowest
RECURSIVE FirstByPriority_MostSpecific(_)
FirstByPriority_MostSpecific(matching_rules) ==
    IF Len(matching_rules) = 1 THEN matching_rules[1]
    ELSE LET rest == FirstByPriority_MostSpecific(Tail(matching_rules))
         IN  IF matching_rules[1].priority >= rest.priority
             THEN matching_rules[1] ELSE rest

\* matching_rules.sort(key=priority)[0]: the first matching rule of the
\* lowest priority number (the sort is stable)
RECURSIVE FirstByPriority(_)
FirstByPriority(matching_rules) ==
    IF Len(matching_rules) = 1 THEN matching_rules[1]
    ELSE LET rest == FirstByPriority(Tail(matching_rules))
         IN  IF matching_rules[1].priority <= rest.priority
             THEN matching_rules[1] ELSE rest

\* StreamlinedDecisionEngine.select_workflow; reasoning holds the decision
\* basis of the generated text
streamlined_select_workflow(task_analysis) ==
    LET matching_rules == MatchingRules(task_analysis)
        selected ==
            IF matching_rules # <<>>
            THEN LET selected_rule == FirstByPriority(matching_rules)
                 IN  [workflow |-> selected_rule.workflow,
                      confidence |-> selected_rule.confidence,
                      primary_reasoning |-> selected_rule.name]
            ELSE fallback_scoring_selection(task_analysis)
    IN  [workflow |-> selected.workflow,
         confidence |-> selected.confidence,
         reasoning |-> selected.primary_reasoning,
         factor_scores |-> task_analysis,
         decision_factors |->
            identify_decision_factors(task_analysis, selected.workflow),
         alternatives_considered |->
            calculate_alternatives(task_analysis, selected.workflow)]

\* the body of _safe_calculate, for the outcome of the calculator: a raised
\* exception or a value outside [SCORE_MIN, SCORE_MAX] gives 0.5
safe_calculate(outcome) ==
    IF outcome.raises THEN Pct(50)
    ELSE IF ~(0 <= outcome.value /\ outcome.value <= Scale) THEN Pct(50)
    ELSE outcome.value

\* a call of _safe_calculate(func, *args, score_name=...): score_name is
\* keyword-only, so a call that does not pass it by keyword raises
\* TypeError before the body runs
CallSafeCalculate(keywords, outcome) ==
    IF "score_name" \notin keywords
    THEN [raised |-> TRUE, value |-> 0]
    ELSE [raised |-> FALSE, value |-> safe_calculate(outcome)]

\* the conservative scores calculate_five_dimensional_scores returns from
\* its except branch
ConservativeFallback ==
    StreamlinedTaskAnalysis(Pct(50), Pct(50), Pct(70), Pct(30), Pct(20))

\* calculate_five_dimensional_scores, for the outcomes of the five
\* calculators: each call passes the score's name as the last positional
\* argument and no keyword
calculate_five_dimensional_scores(outcomes) ==
    LET score == [f \in Factors |-> CallSafeCalculate({}, outcomes[f])]
    IN  IF \E f \in Factors : score[f].raised
        THEN ConservativeFallback
        ELSE StreamlinedTaskAnalysis(score["technical_complexity"].value,
                                     score["scope_impact"].value,
                                     score["risk_factor"].value,
                                     score["context_load"].value,
                                     score["time_pressure"].value)

\* the scores a TaskAnalysis is constructed with in direct calls of
\* select_workflow: on both sides of and on the thresholds of the rules
StreamlinedScores == {Pct(20), Pct(45), Pct(65), Pct(80), Pct(90), Pct(120)}

StreamlinedTasks ==
    {StreamlinedTaskAnalysis(tc, si, rf, cl, tp) :
        tc \in StreamlinedScores, si \in StreamlinedScores,
        rf \in StreamlinedScores, cl \in StreamlinedScores,
        tp \in {Pct(10), Pct(60)}}

\* what a calculator may do: raise, or return a value inside or outside
\* [0, 1]
CalculatorOutcomes ==
    {[raises |-> TRUE, value |-> 0]}
    \cup [raises : {FALSE}, value : {0 - Pct(20), Pct(30), Pct(100), Pct(150)}]

StreamlinedInit ==
    /\ cpt = InitialCpt
    /\ task = NoTask
    /\ bayes = None
    /\ fuzzy = None
    /\ consensus = None
    /\ tracker = None
    /\ nUpdates = 0
    /\ fb = None
    /\ thr = None
    /\ args \in [task_analysis : StreamlinedTasks]
               \cup [outcomes : [Factors -> CalculatorOutcomes]]
    /\ ret = None

\* StreamlinedDecisionEngine.select_workflow(task_analysis)
StreamlinedSelectWorkflow ==
    /\ args # None
    /\ "task_analysis" \in DOMAIN args
    /\ ret = None
    /\ ret' = streamlined_select_workflow(args.task_analysis)
    /\ UNCHANGED <<cpt, task, bayes, fuzzy, consensus, nUpdates, fb, thr, args, tracker>>

\* StreamlinedDecisionEngine.calculate_five_dimensional_scores(
\* task_description, context_info)
CalculateFiveDimensionalScores ==
    /\ args # None
    /\ "outcomes" \in DOMAIN args
    /\ ret = None
    /\ ret' = calculate_five_dimensional_scores(args.outcomes)
    /\ UNCHANGED <<cpt, task, bayes, fuzzy, consensus, nUpdates, fb, thr, args, tracker>>

StreamlinedNext == StreamlinedSelectWorkflow \/ CalculateFiveDimensionalScores

SpecStreamlined == StreamlinedInit /\ [][StreamlinedNext]_vars

----------------------------------------------------------------------------
(* WorkingIntelligenceTracker: the decision history and its recommendations *)

\* a field _detect_project_context leaves at None
Undetected == "None"

\* the context _detect_project_context builds in a project directory (the
\* tech_stack list as the set the similarity makes of it)
ProjectContext(tech_stack, project_type, framework, language) ==
    [tech_stack |-> tech_stack, project_type |-> project_type,
     framework |-> framework, language |-> language]

\* a directory with requirements.txt and manage.py
DjangoProject == ProjectContext({"python"}, "backend", "django", "python")

\* the same with a package.json, which is read first and names the language
DjangoWithPackageJson ==
    ProjectContext({"javascript", "nodejs", "python"}, "backend", "django",
                   "javascript")

\* a directory with none of the indicator files
PlainDirectory == ProjectContext({}, "unknown", Undetected, Undetected)

\* _calculate_context_similarity (both contexts are non-empty dictionaries)
calculate_context_similarity(context1, context2) ==
    LET Match(field, weight) ==
            IF /\ context1[field] # Undetected
               /\ context2[field] # Undetected
               /\ context1[field] = context2[field]
            THEN weight ELSE 0
        tech1 == context1.tech_stack
        tech2 == context2.tech_stack
        overlap == Cardinality(tech1 \cap tech2)
        union == Cardinality(tech1 \cup tech2)
        tech == IF tech1 # {} /\ tech2 # {} /\ union > 0
                THEN Mul(Pct(10), Div(overlap, union)) ELSE 0
    IN  Min(Scale, Match("framework", Pct(40)) + Match("language", Pct(30))
                   + Match("project_type", Pct(20)) + tech)

\* _extract_task_features, of a description given as the set of the keywords
\* that occur in it
extract_task_features(desc_lower) ==
    LET AnyOf(words) == desc_lower \cap words # {}
        task_type ==
            IF AnyOf({"auth", "login", "user", "account", "register"})
            THEN "authentication"
            ELSE IF AnyOf({"ui", "interface", "component", "design", "button"})
            THEN "ui"
            ELSE IF AnyOf({"api", "endpoint", "service", "backend", "server"})
            THEN "api"
            ELSE IF AnyOf({"database", "data", "model", "schema", "migration"})
            THEN "database"
            ELSE IF AnyOf({"test", "testing", "spec", "unit"})
            THEN "testing"
            ELSE IF AnyOf({"fix", "bug", "error", "issue", "broken"})
            THEN "bugfix"
            ELSE IF AnyOf({"feature", "add", "create", "build", "implement"})
            THEN "feature"
            ELSE IF AnyOf({"refactor", "improve", "optimize", "clean"})
            THEN "refactor"
            ELSE "other"
        Indicator(words, points) == IF AnyOf(words) THEN points ELSE 0
        complexity_score ==
            1 + Indicator({"system", "architecture", "complex", "enterprise"}, 2)
              + Indicator({"all", "entire", "across", "multiple", "throughout"}, 2)
              + Indicator({"security", "critical", "production", "important"}, 1)
              + Indicator({"integration", "migrate", "deploy", "configure"}, 1)
    IN  [type |-> task_type, complexity |-> Min(5, complexity_score)]

\* the task test of both paths: the type matches or the complexity is within 1
TaskMatches(decision, task_features) ==
    \/ decision.task_type = task_features.type
    \/ decision.complexity_indicators - task_features.complexity \in -1..1

\* _find_similar_tasks
find_similar_tasks(decisions, task_features) ==
    SelectSeq(decisions, LAMBDA d : TaskMatches(d, task_features))

\* the keys of workflow_success in insertion order: the workflows of the
\* similar decisions, each at its first appearance
RECURSIVE WorkflowsInOrder(_, _)
WorkflowsInOrder(workflows, seen) ==
    IF workflows = <<>> THEN <<>>
    ELSE IF Head(workflows) \in seen THEN WorkflowsInOrder(Tail(workflows), seen)
    ELSE <<Head(workflows)>>
         \o WorkflowsInOrder(Tail(workflows), seen \cup {Head(workflows)})

\* the loop over workflow_success.items(): the first workflow of the highest
\* rate among those with at least two decisions, starting from a rate of 0
RECURSIVE BestWorkflowFrom(_, _, _, _)
BestWorkflowFrom(workflows, total, rate, best) ==
    IF workflows = <<>> THEN best
    ELSE LET workflow == Head(workflows)
         IN  BestWorkflowFrom(Tail(workflows), total, rate,
                 IF total[workflow] >= 2 /\ rate[workflow] > best.best_rate
                 THEN [best_workflow |-> workflow,
                       best_rate |-> rate[workflow]]
                 ELSE best)

\* best_workflow = None, best_rate = 0
NoBest == [best_workflow |-> Undetected, best_rate |-> 0]

\* weight = similarity, with a mutant that counts every decision as one
DecisionWeight_Unit(similarity) == Scale
DecisionWeight(similarity) == similarity

\* _get_context_aware_recommendation
get_context_aware_recommendation(self, task_features) ==
    LET scored == [i \in 1..Len(self.decisions) |->
                      [decision |-> self.decisions[i],
                       similarity |-> calculate_context_similarity(
                                          self.current_project_context,
                                          self.decisions[i].project_context)]]
        similar_decisions ==
            SelectSeq(scored, LAMBDA p : /\ p.similarity > Pct(60)
                                         /\ TaskMatches(p.decision, task_features))
        n == Len(similar_decisions)
        workflows == WorkflowsInOrder(
                         [i \in 1..n |-> similar_decisions[i].decision.workflow_used],
                         {})
        Used(workflow) ==
            SelectSeq(similar_decisions,
                      LAMBDA p : p.decision.workflow_used = workflow)
        Weights(ps) == [i \in 1..Len(ps) |-> DecisionWeight(ps[i].similarity)]
        keys == {workflows[i] : i \in 1..Len(workflows)}
        total == [w \in keys |-> Len(Used(w))]
        weighted_total == [w \in keys |-> SumSeq(Weights(Used(w)))]
        success == [w \in keys |->
                       SumSeq(Weights(SelectSeq(Used(w),
                                                LAMBDA p : p.decision.success)))]
        rate == [w \in keys |-> Div(success[w], weighted_total[w])]
        best == BestWorkflowFrom(workflows, total, rate, NoBest)
    IN  IF n < 2 THEN None
        ELSE IF best.best_workflow # Undetected /\ best.best_rate > Pct(60)
        THEN [workflow |-> best.best_workflow,
              confidence |-> best.best_rate,
              sample_size |-> total[best.best_workflow],
              recommendation_type |-> "context-aware"]
        ELSE None

\* _get_general_recommendation
get_general_recommendation(self, task_features) ==
    LET similar_decisions == find_similar_tasks(self.decisions, task_features)
        n == Len(similar_decisions)
        workflows == WorkflowsInOrder(
                         [i \in 1..n |-> similar_decisions[i].workflow_used], {})
        Used(workflow) ==
            SelectSeq(similar_decisions, LAMBDA d : d.workflow_used = workflow)
        keys == {workflows[i] : i \in 1..Len(workflows)}
        total == [w \in keys |-> Len(Used(w))]
        success == [w \in keys |->
                       Len(SelectSeq(Used(w), LAMBDA d : d.success))]
        rate == [w \in keys |-> Div(success[w], total[w])]
        best == BestWorkflowFrom(workflows, total, rate, NoBest)
    IN  IF n < 2 THEN None
        ELSE IF best.best_workflow # Undetected /\ best.best_rate > Pct(60)
        THEN [workflow |-> best.best_workflow,
              confidence |-> best.best_rate,
              sample_size |-> total[best.best_workflow],
              recommendation_type |-> "general"]
        ELSE None

\* get_workflow_recommendation
get_workflow_recommendation(self, task_description) ==
    IF self.decisions = <<>> THEN None
    ELSE LET task_features == extract_task_features(task_description)
             context_recommendation ==
                 get_context_aware_recommendation(self, task_features)
         IN  IF context_recommendation # None THEN context_recommendation
             ELSE get_general_recommendation(self, task_features)

\* record_decision: the decisions list afterwards (the timestamp, the hash and
\* the completion time are not read by the recommendation)
record_decision(self, task_description, workflow_chosen, outcome_success) ==
    IF self.config.INTELLIGENCE_MODE = "disabled" THEN self.decisions
    ELSE LET task_features == extract_task_features(task_description)
         IN  Append(self.decisions,
                    [task_type |-> task_features.type,
                     complexity_indicators |-> task_features.complexity,
                     workflow_used |-> workflow_chosen,
                     success |-> outcome_success,
                     project_context |-> self.current_project_context])

\* the longest decision history explored
MaxDecisions == 3

\* the directories a tracker is constructed in
ProjectContexts == {DjangoProject, DjangoWithPackageJson, PlainDirectory}

\* the descriptions of recorded tasks and of tasks asked about: a plain bug
\* fix, a critical one, and a refactoring of the entire architecture
RecordedDescriptions == {{"fix", "bug"}}
AskedDescriptions ==
    RecordedDescriptions
        \cup {{"fix", "critical"}, {"refactor", "architecture", "entire"}}

\* the workflows decisions are recorded for
RecordedWorkflows == {"simple", "orchestrated"}

\* a tracker constructed over an empty decisions file
TrackerInit ==
    /\ cpt = InitialCpt
    /\ task = NoTask
    /\ bayes = None
    /\ fuzzy = None
    /\ consensus = None
    /\ nUpdates = 0
    /\ fb = None
    /\ thr = None
    /\ args = None
    /\ ret = None
    /\ tracker \in [config : [INTELLIGENCE_MODE : {"local", "disabled"}],
                    current_project_context : ProjectContexts,
                    decisions : {<<>>}]

\* record_decision(task_description, workflow_chosen, outcome_success)
RecordDecision(task_description, workflow_chosen, outcome_success) ==
    /\ Len(tracker.decisions) < MaxDecisions
    /\ tracker' = [tracker EXCEPT !.decisions =
                      record_decision(tracker, task_description,
                                      workflow_chosen, outcome_success)]
    /\ args' = None
    /\ ret' = None
    /\ UNCHANGED <<cpt, task, bayes, fuzzy, consensus, nUpdates, fb, thr>>

\* get_workflow_recommendation(task_description)
GetWorkflowRecommendation(task_description) ==
    /\ args' = [task_description |-> task_description]
    /\ ret' = [recommendation |->
                  get_workflow_recommendation(tracker, task_description)]
    /\ UNCHANGED <<cpt, task, bayes, fuzzy, consensus, nUpdates, fb, thr, tracker>>

\* a tracker is constructed in another directory: __init__ detects the context
\* there and loads the configuration and the decisions saved so far
ConstructTracker(project_context) ==
    /\ project_context # tracker.current_project_context
    /\ tracker' = [tracker EXCEPT !.current_project_context = project_context]
    /\ args' = None
    /\ ret' = None
    /\ UNCHANGED <<cpt, task, bayes, fuzzy, consensus, nUpdates, fb, thr>>

TrackerNext ==
    \/ \E d \in RecordedDescriptions, w \in RecordedWorkflows, s \in BOOLEAN :
          RecordDecision(d, w, s)
    \/ \E d \in AskedDescriptions : GetWorkflowRecommendation(d)
    \/ \E c \in ProjectContexts : ConstructTracker(c)

SpecTracker == TrackerInit /\ [][TrackerNext]_vars

----------------------------------------------------------------------------
(* Claims about the Bayesian network under repeated feedback (SpecLearn) *)

\* the rounding of the four quotients of a posterior: half a unit each
PosteriorTolerance == Len(WorkflowOrder) \div 2

\* C1: whatever the TaskAnalysis and whatever feedback the tables have
\* received, the posterior returned by calculate_posterior_probabilities
\* maps each of the 4 workflows to a value in [0,1] and the values sum to 1
\* (within the rounding of the four quotients).
C1_PosteriorIsDistribution ==
    bayes # None =>
        /\ DOMAIN bayes.posterior_probabilities = WorkflowType
        /\ \A w \in WorkflowType :
              /\ bayes.posterior_probabilities[w] >= 0
              /\ bayes.posterior_probabilities[w] <= Scale
        /\ SumOver(bayes.posterior_probabilities, WorkflowOrder)
              >= Scale - PosteriorTolerance
        /\ SumOver(bayes.posterior_probabilities, WorkflowOrder)
              <= Scale + PosteriorTolerance

\* the four cells the repeated feedback call targets, one per table
TargetCell(f) == cpt[f][<<fb.workflow, to_discrete_levels(task)[f]>>]

\* C1 witness: a posterior computed from tables that feedback has driven to
\* the upper clamp
C1_Witness ==
    /\ bayes # None
    /\ fb.success
    /\ \A f \in CptFactors : TargetCell(f) = Pct(99)
    /\ bayes.workflow = fb.workflow

\* C2: after any sequence of feedback updates every cell of the four
\* tables lies in [0.01, 0.99].
C2_CellsWithinClamp ==
    \A f \in CptFactors : \A k \in DOMAIN cpt[f] :
        cpt[f][k] >= Pct(1) /\ cpt[f][k] <= Pct(99)

\* C2 witness: failure updates have brought a cell down to the lower clamp
C2_Witness ==
    /\ ~fb.success
    /\ \E f \in CptFactors :
          /\ TargetCell(f) = Pct(1)
          /\ InitialCpt[f][<<fb.workflow, to_discrete_levels(task)[f]>>] > Pct(1)

\* C8: repeated success updates never decrease the targeted cells and
\* eventually bring them to 0.99, where they stay; repeated failure updates
\* never increase them and eventually bring them to 0.01, where they stay.
C8_MonotoneConvergence ==
    /\ [][\A f \in CptFactors :
            IF fb.success
            THEN TargetCell(f)' >= TargetCell(f)
            ELSE TargetCell(f)' <= TargetCell(f)]_vars
    /\ <>[](\A f \in CptFactors :
              TargetCell(f) = IF fb.success THEN Pct(99) ELSE Pct(1))

\* C8 witness: success updates have raised every targeted cell from its
\* initial value to 0.99
C8_Witness ==
    /\ fb.success
    /\ \A f \in CptFactors :
          /\ TargetCell(f) = Pct(99)
          /\ InitialCpt[f][<<fb.workflow, to_discrete_levels(task)[f]>>] < Pct(99)

----------------------------------------------------------------------------
(* Claims about the consensus rule (SpecConsensus) *)

Abs(x) == IF x >= 0 THEN x ELSE 0 - x

\* both methods selected the same workflow and the consensus is computed
Agreed == consensus # None /\ bayes.workflow = fuzzy.workflow
\* the methods selected different workflows and the consensus is computed
Disagreed == consensus # None /\ bayes.workflow # fuzzy.workflow

----------------------------------------------------------------------------
(* Claims about the decision pipeline (Spec) *)

\* the sum of the values of a map over all its keys
RECURSIVE SumAll(_)
SumAll(m) ==
    IF DOMAIN m = {} THEN 0
    ELSE LET k == CHOOSE x \in DOMAIN m : TRUE
         IN  m[k] + SumAll([x \in (DOMAIN m) \ {k} |-> m[x]])

\* C4 as claimed: when the total aggregated strength is > 0, the
\* defuzzified_scores of the result of decide_workflow sum to 1.0 (within
\* the rounding of the quotients).
C4_DefuzzifiedScoresSumToOne ==
    (fuzzy # None /\ SumAll(fuzzy.defuzzified_scores) > 0) =>
        Abs(SumAll(fuzzy.defuzzified_scores) - Scale) <= PosteriorTolerance

\* C5 as claimed: every TaskAnalysis an estimator has worked on holds all
\* five scores in [0,1].
C5_ScoresClampedAtConstruction ==
    (task # NoTask /\ bayes # None) =>
        \A f \in Factors : task[f] >= 0 /\ task[f] <= Scale

\* C10: every decision of the core (select_workflow, decide_workflow with
\* its fallback, determine_consensus) carries a confidence in [0,1] and one
\* of the 4 workflows.
C10_DecisionsWellFormed ==
    /\ bayes # None =>
          /\ bayes.workflow \in WorkflowType
          /\ bayes.confidence >= 0 /\ bayes.confidence <= Scale
    /\ fuzzy # None =>
          /\ fuzzy.workflow \in WorkflowType
          /\ fuzzy.fuzzy_confidence >= 0 /\ fuzzy.fuzzy_confidence <= Scale
    /\ consensus # None =>
          /\ consensus.workflow \in WorkflowType
          /\ consensus.confidence >= 0 /\ consensus.confidence <= Scale

\* C10 witness: a consensus over a Bayesian decision made after feedback
\* and a fuzzy decision in which no rule fired, for scores within [0,1]
C10_Witness ==
    /\ consensus # None
    /\ nUpdates > 0
    /\ \A f \in Factors : task[f] >= 0 /\ task[f] <= Scale
    /\ DOMAIN fuzzy.rule_activations = {}
    /\ fuzzy.workflow = COMPLETE_SYSTEM
    /\ fuzzy.fuzzy_confidence = Pct(50)

----------------------------------------------------------------------------
(* Claims about concurrent use of one network (SpecConc) *)

\* the factors whose cell the reader looked up after updater u wrote it
SeenAfter(u) == {f \in CptFactors : <<u, f>> \in thr[Reader].after}

\* C6: when update_beliefs_with_feedback runs concurrently with
\* select_workflow on the same network, the posterior computation observes
\* either none or all of the cell writes of that update
C6_NoTornRead ==
    (thr # None /\ thr[Reader].pc = "done") =>
        \A u \in Updaters :
            SeenAfter(u) = {} \/ SeenAfter(u) = CptFactors

\* the two values a cell can have after both updates ran one after the other
SerialOutcomes(v0, s1, s2) ==
    { UpdatedCell(UpdatedCell(v0, s1), s2),
      UpdatedCell(UpdatedCell(v0, s2), s1) }

\* C7: when two update_beliefs_with_feedback calls that target the same
\* cell overlap, the cell's final value is the result of applying both
\* updates in some sequential order
C7_NoLostUpdate ==
    ( /\ thr # None
      /\ \A u \in Updaters : thr[u].pc = "done"
      /\ thr["u1"].chosen_workflow = thr["u2"].chosen_workflow ) =>
        \A f \in CptFactors :
            LET key == <<thr["u1"].chosen_workflow, to_discrete_levels(task)[f]>>
            IN  cpt[f][key] \in
                    SerialOutcomes(InitialCpt[f][key],
                                   thr["u1"].success, thr["u2"].success)

----------------------------------------------------------------------------
(* Claims about the fuzzy system on any crisp inputs (SpecFuzzy) *)

\* no fuzzy rule fired in the decision d: the aggregated strength map is
\* empty or its total is 0
NoRuleFired(d) ==
    DOMAIN d.defuzzified_scores = {} \/ SumAll(d.defuzzified_scores) = 0

\* C11: when no fuzzy rule fires (the aggregated strength map is empty or
\* its total is 0), decide_workflow returns COMPLETE_SYSTEM with confidence
\* exactly 0.5.
C11_FallbackWhenNoRuleFires ==
    (fuzzy # None /\ NoRuleFired(fuzzy)) =>
        /\ fuzzy.workflow = COMPLETE_SYSTEM
        /\ fuzzy.fuzzy_confidence = Pct(50)

\* C11 witness: a decision on a non-empty dictionary of inputs in which no
\* rule fired, answered by the fallback
C11_Witness ==
    /\ fuzzy # None
    /\ DOMAIN task # {}
    /\ DOMAIN fuzzy.rule_activations = {}
    /\ NoRuleFired(fuzzy)
    /\ fuzzy.workflow = COMPLETE_SYSTEM
    /\ fuzzy.fuzzy_confidence = Pct(50)

----------------------------------------------------------------------------
(* Claims about direct calls on tables of any shape (SpecTables) *)

\* the posterior call has returned
PosteriorReturned ==
    ret # None /\ ret.method = "calculate_posterior_probabilities"

\* the likelihood call has returned
LikelihoodReturned ==
    ret # None /\ ret.method = "calculate_likelihood"

\* the sum of likelihood x prior over the 4 workflows for the call's inputs
UnnormalizedTotal ==
    SumOver(UnnormalizedPosteriors(cpt, args.discrete_levels), WorkflowOrder)

\* C12: if the sum of the unnormalized posteriors is 0,
\* calculate_posterior_probabilities returns the uniform distribution, 0.25
\* for each of the 4 workflows.
C12_UniformFallback ==
    (PosteriorReturned /\ UnnormalizedTotal = 0) =>
        \A w \in WorkflowType : ret.value[w] = Pct(25)

\* C12 witness: the call returned the uniform distribution for tables whose
\* likelihoods are all zero
C12_Witness ==
    /\ PosteriorReturned
    /\ UnnormalizedTotal = 0
    /\ \A w \in WorkflowType :
          calculate_likelihood(cpt, w, args.discrete_levels) = 0
    /\ \A w \in WorkflowType : ret.value[w] = Pct(25)

\* the tables with every key, an absent key standing at the neutral 0.5
CompletedTables(tables) ==
    [f \in CptFactors |->
        [key \in WorkflowType \X ComplexityLevel |->
            IF key \in DOMAIN tables[f] THEN tables[f][key] ELSE Pct(50)]]

\* the evidence with every factor, an absent factor standing at MEDIUM
CompletedEvidence(discrete_levels) ==
    [f \in CptFactors |->
        IF f \in DOMAIN discrete_levels THEN discrete_levels[f] ELSE MEDIUM]

\* the product of the four cells the complete tables hold for the complete
\* evidence
ProductOfCells(tables, workflow, levels) ==
    Mul(Mul(Mul(Mul(Scale,
        tables["technical_complexity"][<<workflow, levels["technical_complexity"]>>]),
        tables["scope_impact"][<<workflow, levels["scope_impact"]>>]),
        tables["risk_factor"][<<workflow, levels["risk_factor"]>>]),
        tables["context_load"][<<workflow, levels["context_load"]>>])

\* C13: in calculate_likelihood a key missing from a factor's table
\* contributes 0.5 for that factor and a factor missing from the evidence is
\* treated as MEDIUM: the call returns what it returns on the tables
\* completed with 0.5 and the evidence completed with MEDIUM.
C13_NeutralDefaults ==
    LikelihoodReturned =>
        ret.value = ProductOfCells(CompletedTables(cpt), ret.workflow,
                                   CompletedEvidence(args.discrete_levels))

\* C13 witness: a call that met both a missing key and a missing factor
C13_Witness ==
    /\ LikelihoodReturned
    /\ ret.value > 0
    /\ "risk_factor" \notin DOMAIN args.discrete_levels
    /\ \E f \in DOMAIN args.discrete_levels :
          <<ret.workflow, args.discrete_levels[f]>> \notin DOMAIN cpt[f]

----------------------------------------------------------------------------
(* Claims about decisions and feedback on one network (SpecCalls) *)

\* the cell a feedback call with workflow w on the request ta targets in
\* the table of factor f
FeedbackKey(w, ta, f) == <<w, to_discrete_levels(ta)[f]>>

\* the step is a feedback call
FeedbackStep == nUpdates' = nUpdates + 1

\* C14: an update_beliefs_with_feedback call with chosen workflow w changes
\* at most the four cells (w, level_f), one in each factor table; every
\* other cell is unchanged, there is no table for time_pressure and none is
\* made, and a key absent from a table is not created.
C14_FeedbackFrame ==
    [][FeedbackStep =>
          /\ DOMAIN cpt' = CptFactors
          /\ \A f \in CptFactors :
                /\ DOMAIN cpt'[f] = DOMAIN cpt[f]
                /\ \A key \in DOMAIN cpt[f] :
                      key # FeedbackKey(fb.workflow, task, f) =>
                          cpt'[f][key] = cpt[f][key]]_vars

\* C14 witness: after a feedback call one targeted key is still absent from
\* its table while the targeted cell of another table has moved
C14_Witness ==
    /\ nUpdates = 1
    /\ fb # None
    /\ \E f \in CptFactors :
          FeedbackKey(fb.workflow, task, f) \notin DOMAIN cpt[f]
    /\ \E g \in CptFactors :
          LET key == FeedbackKey(fb.workflow, task, g)
          IN  /\ key \in DOMAIN cpt[g]
              /\ cpt[g][key] = UpdatedCell(InitialCpt[g][key], fb.success)
              /\ cpt[g][key] # InitialCpt[g][key]

\* the step is a decision call (select_workflow, decide_workflow, or both
\* again)
DecisionStep ==
    nUpdates' = nUpdates /\ (bayes' # bayes \/ fuzzy' # fuzzy)

WithTimePressure(ta, tp) == [ta EXCEPT !["time_pressure"] = Pct(tp)]

\* C16: time_pressure does not influence the Bayesian path: two
\* TaskAnalysis values that differ only in time_pressure yield the same
\* posterior and the same selected workflow, and used as feedback they
\* produce the same update of the tables.
C16_TimePressureIrrelevant ==
    /\ [](bayes # None =>
            \A tp \in LevelScores :
                bayes = select_workflow(cpt, WithTimePressure(task, tp)))
    /\ [][FeedbackStep =>
            \A tp \in LevelScores :
                cpt' = update_beliefs_with_feedback(cpt, fb.workflow, fb.success,
                                                    WithTimePressure(task, tp))]_vars

\* C16 witness: a decision taken after feedback on a request of high time
\* pressure that equals the decision for the same request at low time
\* pressure
C16_Witness ==
    /\ bayes # None
    /\ nUpdates > 0
    /\ DiscreteLevel(task["time_pressure"]) = HIGH
    /\ to_discrete_levels(WithTimePressure(task, 10))["time_pressure"] = LOW
    /\ bayes = select_workflow(cpt, WithTimePressure(task, 10))

----------------------------------------------------------------------------
(* Claims about the scenarios of the pipeline (Spec) *)

\* the request whose five scores are all 0.1
AllLowTask == TaskAnalysis(10, 10, 10, 10, 10)

\* C17: with the initial (never updated) tables and priors,
\* TaskAnalysis(0.1, 0.1, 0.1, 0.1, 0.1) yields the Bayesian decision
\* ORCHESTRATED with confidence strictly greater than 0.5.
C17_AllLowIsOrchestrated ==
    (bayes # None /\ task = AllLowTask /\ cpt = InitialCpt) =>
        /\ bayes.workflow = ORCHESTRATED
        /\ bayes.confidence > Pct(50)

\* C17 witness: the decision for the all-0.1 request on a network that
\* never received feedback
C17_Witness ==
    /\ bayes # None
    /\ task = AllLowTask
    /\ nUpdates = 0
    /\ cpt = InitialCpt
    /\ bayes.workflow = ORCHESTRATED
    /\ bayes.confidence > Pct(50)
    /\ bayes.posterior_probabilities[COMPLETE_SYSTEM] < Pct(50)

----------------------------------------------------------------------------
(* Claims about scenarios of the fuzzy system (SpecFuzzy) *)

\* the crisp inputs of the scenario: context_load and scope_impact at 0.85,
\* every other factor omitted or at the neutral 0.5
HeavyBroadScenario ==
    /\ {"context_load", "scope_impact"} \subseteq DOMAIN task
    /\ task["context_load"] = Pct(85)
    /\ task["scope_impact"] = Pct(85)
    /\ \A f \in (DOMAIN task) \ {"context_load", "scope_impact"} :
          task[f] = Pct(50)

\* rule number i (counted from 1 as in the source comments) fires on the
\* inputs of the request
RuleFires(i) ==
    calculate_rule_activation(fuzzy_rules[i], fuzzify_inputs(task)) > 0

\* C18 as claimed: in the scenario the heavy/overwhelming-context rule
\* (rule 6) and the broad-scope rules that conclude TASKIT (rules 5 and 8)
\* all fire and decide_workflow selects TASKIT.
C18_HeavyBroadFiresAll ==
    (fuzzy # None /\ HeavyBroadScenario) =>
        /\ RuleFires(6)
        /\ RuleFires(5)
        /\ RuleFires(8)
        /\ fuzzy.workflow = TASKIT

\* the one shape of the scenario in which rule 3 (complex technical, medium
\* or high risk) fires on the risk alone: risk_factor at 0.5 while
\* technical_complexity is omitted
RiskWithoutComplexity ==
    "risk_factor" \in DOMAIN task /\ "technical_complexity" \notin DOMAIN task

\* C18 amended: in the scenario rule 6 and rule 5 fire; rule 8 (complex +
\* broad + heavy) fires exactly when technical_complexity is omitted, since
\* 0.5 is not complex; decide_workflow selects TASKIT, except that with
\* risk_factor at 0.5 and technical_complexity omitted rule 3 fires too and
\* COMPLETE_SYSTEM is selected.
C18_HeavyBroadSelectsTaskit ==
    (fuzzy # None /\ HeavyBroadScenario) =>
        /\ RuleFires(6)
        /\ RuleFires(5)
        /\ RuleFires(8) <=> ("technical_complexity" \notin DOMAIN task)
        /\ RuleFires(3) <=> RiskWithoutComplexity
        /\ fuzzy.workflow =
              IF RiskWithoutComplexity THEN COMPLETE_SYSTEM ELSE TASKIT

\* C18 witness: the scenario with the three other factors at 0.5, decided
\* TASKIT by rules 5 and 6 without rule 8
C18_Witness ==
    /\ fuzzy # None
    /\ HeavyBroadScenario
    /\ DOMAIN task = Factors
    /\ RuleFires(5) /\ RuleFires(6) /\ ~RuleFires(8)
    /\ fuzzy.workflow = TASKIT

----------------------------------------------------------------------------
(* Claims about the uncertainty breakdown (SpecUncertainty) *)

\* C19 as claimed: the total uncertainty of the breakdown is the
\* root-mean-square of four components: the Bayesian uncertainty, the fuzzy
\* uncertainty, the method-disagreement term and the risk spread (within
\* 0.0005 for rounding).
C19_TotalIsRmsOfFour ==
    ret # None =>
        Abs(ret.total_uncertainty
            - RootMeanSquare(<< ret.bayesian_uncertainty,
                                ret.fuzzy_uncertainty,
                                ret.method_disagreement,
                                ret.risk_uncertainty >>)) <= 5

----------------------------------------------------------------------------
(* Claims about the Monte Carlo risk simulation (SpecRisk) *)

\* the drawn probabilities with the draw of factor i replaced by p
WithDraw(sampled_probability, i, p) == [sampled_probability EXCEPT ![i] = p]

\* the sample the same iteration computes when the draw of factor i is p
Resampled(i, p) ==
    SimulateOnce(args.risk_factors, args.task_type,
                 WithDraw(ret.sampled_probability, i, p))

\* C20: within one sample, raising the realized risk of one factor while
\* the other factors keep theirs lowers neither the combined risk (the
\* maximum plus the pairwise correlation bonus), nor the blended total
\* risk, nor the sample that is appended
C20_RiskIsMonotone ==
    ret # None =>
        \A i \in DOMAIN ret.sampled_probability :
            \A p \in SampledProbabilities :
                p >= ret.sampled_probability[i] =>
                    LET raised == Resampled(i, p)
                    IN  /\ raised.sampled_risks[i] >= ret.sampled_risks[i]
                        /\ raised.combined_risk >= ret.combined_risk
                        /\ raised.total_risk >= ret.total_risk
                        /\ raised.risk_sample >= ret.risk_sample

\* a sample of three factors where the correlation bonus is positive, and
\* a factor that is not the maximum can be raised, which raises the
\* combined risk through the bonus alone
C20_Witness ==
    /\ ret # None
    /\ Len(ret.sampled_risks) = Cardinality(RiskNames)
    /\ ret.combined_risk > MaxRisk(ret.sampled_risks)
    /\ ret.combined_risk < Scale
    /\ \E i \in DOMAIN ret.sampled_risks :
          /\ ret.sampled_risks[i] < MaxRisk(ret.sampled_risks)
          /\ \E p \in SampledProbabilities :
                /\ p > ret.sampled_probability[i]
                /\ Resampled(i, p).sampled_risks[i] <= MaxRisk(ret.sampled_risks)
                /\ Resampled(i, p).combined_risk > ret.combined_risk
                /\ Resampled(i, p).total_risk > ret.total_risk

----------------------------------------------------------------------------
(* Claims about rule activation and aggregation (SpecFuzzy) *)

\* the maximum membership of the request's value of factor f among the
\* labels a rule allows for f; 0 when the request does not supply f
LabelSupport(rule, f) ==
    IF f \in DOMAIN task
    THEN SetMax({0} \cup {membership(SetNamed(f, t), task[f]) :
                            t \in rule.conditions[f] \cap Terms(f)})
    ELSE 0

\* rule weight x the minimum of the label supports over every factor the
\* rule references
ActivationOverReferenced(i) ==
    LET rule == fuzzy_rules[i]
    IN  Mul(rule.weight,
            SetMin({LabelSupport(rule, f) : f \in DOMAIN rule.conditions}))

\* rule weight x the minimum of the label supports over the referenced
\* factors the request supplies; 0 when it supplies none of them
ActivationOverSupplied(i) ==
    LET rule == fuzzy_rules[i]
        supplied == (DOMAIN rule.conditions) \cap (DOMAIN task)
    IN  IF supplied = {}
        THEN 0
        ELSE Mul(rule.weight,
                 SetMin({LabelSupport(rule, f) : f \in supplied}))

\* the decision's activations are those of Activation: the fired rules, in
\* rule order, are the rules Activation makes positive, each with that
\* strength
ActivationsAre(Activation(_)) ==
    LET fired == SelectSeq([i \in 1..Len(fuzzy_rules) |-> i],
                           LAMBDA i : Activation(i) > 0)
    IN  /\ DOMAIN fuzzy.rule_activations = 0..(Len(fired) - 1)
        /\ \A k \in 1..Len(fired) :
              fuzzy.rule_activations[k - 1] = Activation(fired[k])

\* activation x rule confidence of the fired rules that conclude workflow w
Contributions(Activation(_), w) ==
    {Mul(Activation(i), fuzzy_rules[i].confidence) :
        i \in {j \in 1..Len(fuzzy_rules) :
                  fuzzy_rules[j].conclusion = w /\ Activation(j) > 0}}

\* the decision's strengths are the maximum contribution per workflow that
\* some fired rule concludes, each within [0, 1]
StrengthsAre(Activation(_)) ==
    \A w \in WorkflowType :
        IF Contributions(Activation, w) = {}
        THEN w \notin DOMAIN fuzzy.defuzzified_scores
        ELSE /\ w \in DOMAIN fuzzy.defuzzified_scores
             /\ fuzzy.defuzzified_scores[w] = SetMax(Contributions(Activation, w))
             /\ fuzzy.defuzzified_scores[w] >= 0
             /\ fuzzy.defuzzified_scores[w] <= Scale

----------------------------------------------------------------------------
(* Claims about the membership functions (SpecMembership) *)

\* C22 as claimed: a triangular membership function with a <= b <= c
\* returns a degree in [0, 1] for every input in [0, 1], and 1 at its peak
\* x = b, the shoulder shapes a = b and b = c included.
C22_PeakIsOne ==
    ret # None =>
        /\ ret.degree >= 0
        /\ ret.degree <= Scale
        /\ (args.x = args.b => ret.degree = Scale)

----------------------------------------------------------------------------
(* Claims about the linguistic interpretation (SpecFuzzy) *)

\* the highest membership of the request's value of factor f among the
\* factor's labels
HighestMembership(f) ==
    SetMax({membership(SetNamed(f, t), task[f]) : t \in Terms(f)})

\* C23 as claimed: for every supplied factor and every crisp value in
\* [0, 1], end points included, the interpretation reports one of the
\* factor's defined labels, the one of highest membership, with the hedge
\* word very / quite / somewhat / slightly for a membership >= 0.8 /
\* >= 0.6 / >= 0.4 / below 0.4.
C23_ReportsDefinedLabel ==
    fuzzy # None =>
        \A f \in DOMAIN task :
            /\ f \in DOMAIN fuzzy.linguistic_interpretation
            /\ LET reported == fuzzy.linguistic_interpretation[f]
               IN  /\ reported.best_term \in Terms(f)
                   /\ membership(SetNamed(f, reported.best_term), task[f])
                         = HighestMembership(f)
                   /\ reported.qualifier = Qualifier(HighestMembership(f))

----------------------------------------------------------------------------
(* Claims about the rule_activations map (SpecFuzzy) *)

\* the activation of the i-th rule of the rule base on the request
RuleActivation(i) ==
    calculate_rule_activation(fuzzy_rules[i], fuzzify_inputs(task))

\* C24 as claimed: the rule_activations map of a decision has one entry per
\* fired rule, keyed by the rule's id (its position in the rule base,
\* counted from 0, so that the explanation's "Rule #k" is id k - 1), whose
\* value is that rule's activation strength.
C24_KeyedByRuleId ==
    fuzzy # None =>
        \A i \in 1..Len(fuzzy_rules) :
            /\ (RuleActivation(i) > 0) <=> ((i - 1) \in DOMAIN fuzzy.rule_activations)
            /\ (RuleActivation(i) > 0) =>
                  fuzzy.rule_activations[i - 1] = RuleActivation(i)

----------------------------------------------------------------------------
(* Claims about the sensitivity analysis (SpecSensitivity) *)

\* the state follows a direct call of simulate_decision_change
Simulated == ret # None /\ "perturbation" \in DOMAIN args

\* the state follows a call of perform_sensitivity_analysis
Analyzed == ret # None /\ "five_dimensional_scores" \in DOMAIN args

\* the approximated confidence delta: perturbation x importance x 0.5
ApproximatedDelta(factor_name, perturbation) ==
    (perturbation * factor_importance(factor_name)) \div (2 * Scale)

\* the perturbations recorded for a factor that changed the workflow
Flips(sensitivity) ==
    {k \in DOMAIN sensitivity.perturbation_results :
        sensitivity.perturbation_results[k].workflow_changed}

\* the mean of the absolute confidence changes recorded for a factor
MeanAbsoluteChange(sensitivity) ==
    Mean([k \in DOMAIN sensitivity.perturbation_results |->
            Abs(sensitivity.perturbation_results[k].confidence_change)])

ConfiguredPerturbations ==
    {perturbation_ranges[k] : k \in 1..Len(perturbation_ranges)}

\* C26: for every base result, every factor and every perturbation of the
\* configuration the simulation reports the base workflow unchanged (the
\* approximated delta is at most 0.045 in magnitude, below the threshold
\* 0.15), so workflow_change_frequency is 0 for every factor and each
\* sensitivity score is 0.5 x the mean absolute confidence change.
C26_NoFlipIsEverReported ==
    /\ (Simulated /\ args.perturbation \in ConfiguredPerturbations) =>
          /\ Abs(ApproximatedDelta(args.factor_name, args.perturbation)) * 1000
                <= 45 * Scale
          /\ ~ret.workflow_changed
          /\ ret.workflow = args.base_result.workflow
    /\ Analyzed =>
          \A f \in DOMAIN args.five_dimensional_scores :
              LET sensitivity == ret.factor_sensitivities[f]
              IN  /\ \A k \in DOMAIN sensitivity.perturbation_results :
                        /\ ~sensitivity.perturbation_results[k].workflow_changed
                        /\ sensitivity.perturbation_results[k].new_workflow
                              = args.bayesian_result.workflow
                  /\ sensitivity.workflow_change_frequency = 0
                  /\ sensitivity.sensitivity_score
                        = Mul(sensitivity.average_confidence_impact, Pct(50))
                  /\ sensitivity.average_confidence_impact
                        = MeanAbsoluteChange(sensitivity)

\* C26 witness: an analysis of all five factors and an unlisted one, for a
\* base result that has alternatives to flip to, in which the confidence
\* does change
C26_Witness ==
    /\ Analyzed
    /\ DOMAIN args.five_dimensional_scores = {ScoreOrder[k] : k \in 1..Len(ScoreOrder)}
    /\ args.bayesian_result.alternatives # <<>>
    /\ \A f \in DOMAIN args.five_dimensional_scores :
          /\ ret.factor_sensitivities[f].workflow_change_frequency = 0
          /\ ret.factor_sensitivities[f].sensitivity_score > 0

\* the directions in which the correlation table lists the pair of risks
ListedDirections(risk1, risk2) ==
    {d \in {<<risk1, risk2>>, <<risk2, risk1>>} :
        d[1] \in DOMAIN risk_correlations
        /\ d[2] \in DOMAIN risk_correlations[d[1]]}

\* the correlation of an unordered pair of risks: the listed value, 0.1 for
\* a pair the table does not list
PairCorrelation(risk1, risk2) ==
    IF ListedDirections(risk1, risk2) = {}
    THEN Pct(10)
    ELSE LET d == CHOOSE d \in ListedDirections(risk1, risk2) : TRUE
         IN  risk_correlations[d[1]][d[2]]

\* the sum over a set of factor pairs of 0.1 x correlation x product of the
\* realized risks
RECURSIVE PairBonus(_)
PairBonus(pairs) ==
    IF pairs = {} THEN 0
    ELSE LET p == CHOOSE p \in pairs : TRUE
         IN  Mul(Mul(Mul(ret.sampled_risks[p[1]], ret.sampled_risks[p[2]]),
                     PairCorrelation(args.risk_factors[p[1]].name,
                                     args.risk_factors[p[2]].name)),
                 Pct(10))
             + PairBonus(pairs \ {p})

\* every name of a risk in the correlation table or in the lists explored
AllRiskNames ==
    RiskNames \cup DOMAIN risk_correlations
    \cup UNION {DOMAIN risk_correlations[r] : r \in DOMAIN risk_correlations}

\* C27: every sample lies in [0, 1] and is at least the task type's base
\* rate; the combined risk is the maximum realized risk plus 0.1 x
\* correlation x product for every factor pair (correlation 0.1 for unlisted
\* pairs, the same in either argument order), capped at 1 (0 without
\* factors), and the total is base + combined x (1 - base).
C27_SampleWithinBaseAndOne ==
    ret # None =>
          LET base == base_task_risks[args.task_type]
              n == Len(args.risk_factors)
          IN  /\ \A r1, r2 \in AllRiskNames :
                    /\ get_risk_correlation(r1, r2) = get_risk_correlation(r2, r1)
                    /\ ListedDirections(r1, r2) = {}
                          => get_risk_correlation(r1, r2) = Pct(10)
              /\ ret.risk_sample >= base
              /\ ret.risk_sample >= 0
              /\ ret.risk_sample <= Scale
              /\ \A i \in 1..n :
                    ret.sampled_risks[i]
                       = Mul(ret.sampled_probability[i], args.risk_factors[i].impact)
              /\ ret.combined_risk =
                    IF n = 0 THEN 0
                    ELSE Min(Scale,
                             MaxRisk(ret.sampled_risks)
                             + PairBonus({p \in (1..n) \X (1..n) : p[1] < p[2]}))
              /\ ret.total_risk = base + Mul(ret.combined_risk, Scale - base)
              /\ ret.risk_sample = Min(Scale, ret.total_risk)

\* C27 witness: a sample of three factors, the first pair listed in the
\* table in the opposite order, whose combined risk exceeds the maximum
\* without reaching the cap, so the sample lies strictly between the base
\* rate and 1
C27_Witness ==
    /\ ret # None
    /\ Len(args.risk_factors) = Cardinality(RiskNames)
    /\ args.risk_factors[1].name = "integration_failure"
    /\ args.risk_factors[2].name = "breaking_changes"
    /\ ret.combined_risk > MaxRisk(ret.sampled_risks)
    /\ ret.combined_risk < Scale
    /\ ret.risk_sample > base_task_risks[args.task_type]
    /\ ret.risk_sample < Scale

----------------------------------------------------------------------------
(* Claims about the streamlined decision engine (SpecStreamlined) *)

\* the state follows a call of select_workflow
StreamlinedSelected == ret # None /\ "task_analysis" \in DOMAIN args

\* the state follows a call of calculate_five_dimensional_scores
ScoresCalculated == ret # None /\ "outcomes" \in DOMAIN args

\* the rules of the given priority whose condition holds for the analysis
RulesMatching(analysis, priority) ==
    {k \in 1..Len(decision_rules) :
        /\ decision_rules[k].priority = priority
        /\ RuleCondition(decision_rules[k].name, analysis)}

\* C28: select_workflow uses the highest-priority matching rule: with
\* context_load > 0.8 it selects TASKIT at 0.95, with risk_factor > 0.8 and
\* context_load <= 0.8 it selects COMPLETE_SYSTEM at 0.9, whichever
\* priority-2 rules match as well; a priority-2 rule decides only when no
\* priority-1 rule matches, and the weighted fallback scoring only when no
\* rule matches.
C28_HighestPriorityRuleWins ==
    StreamlinedSelected =>
        LET analysis == args.task_analysis
        IN  /\ analysis.context_load > Pct(80) =>
                  ret.workflow = TASKIT /\ ret.confidence = Pct(95)
            /\ (analysis.risk_factor > Pct(80) /\ analysis.context_load <= Pct(80)) =>
                  ret.workflow = COMPLETE_SYSTEM /\ ret.confidence = Pct(90)
            /\ (RulesMatching(analysis, 1) = {} /\ RulesMatching(analysis, 2) # {}) =>
                  \E k \in RulesMatching(analysis, 2) :
                      /\ ret.workflow = decision_rules[k].workflow
                      /\ ret.confidence = decision_rules[k].confidence
                      /\ ret.reasoning = decision_rules[k].name
            /\ (ret.reasoning = "Weighted factor analysis") <=>
                  (RulesMatching(analysis, 1) \cup RulesMatching(analysis, 2) = {})

\* C28 witness: risk_factor above 0.8 with context_load at most 0.8, while
\* the priority-2 rule for large scope, which concludes TASKIT, matches as
\* well; COMPLETE_SYSTEM is selected at 0.9
C28_Witness ==
    /\ StreamlinedSelected
    /\ args.task_analysis.risk_factor > Pct(80)
    /\ args.task_analysis.context_load <= Pct(80)
    /\ RuleCondition("Large Scope Task", args.task_analysis)
    /\ ret.workflow = COMPLETE_SYSTEM
    /\ ret.confidence = Pct(90)

\* the score _safe_calculate is to return for the outcome of a calculator
IsolatedScore(outcome) ==
    IF outcome.raises \/ outcome.value < 0 \/ outcome.value > Scale
    THEN Pct(50)
    ELSE outcome.value

\* C29 as claimed: calculate_five_dimensional_scores isolates failures per
\* dimension: a dimension whose calculator raises or returns a value
\* outside [0, 1] falls back to 0.5 and every other dimension keeps the
\* value of its calculator, so that five valid values are returned as they
\* are.
C29_FailuresIsolatedPerDimension ==
    ScoresCalculated =>
        \A f \in Factors : ret[f] = IsolatedScore(args.outcomes[f])

----------------------------------------------------------------------------
(* Claims about recommendations from the decision history (SpecTracker) *)

\* get_workflow_recommendation has returned for the history in tracker
RecommendationReturned == ret # None /\ "recommendation" \in DOMAIN ret

\* the similarity of the directory of the tracker with the directory the
\* decision at position i was recorded in
SimilarityAt(i) ==
    calculate_context_similarity(tracker.current_project_context,
                                 tracker.decisions[i].project_context)

\* the recorded decisions that are similar on the path of the given type:
\* similar tasks, and on the context-aware path also from a similar directory
SimilarPositions(recommendation_type) ==
    {i \in 1..Len(tracker.decisions) :
        /\ TaskMatches(tracker.decisions[i],
                       extract_task_features(args.task_description))
        /\ recommendation_type = "context-aware" => SimilarityAt(i) > Pct(60)}

\* what the decisions at the given positions weigh together on that path:
\* their similarities on the context-aware path, one each on the general path
RECURSIVE HistoryWeight(_, _)
HistoryWeight(positions, recommendation_type) ==
    IF positions = {} THEN 0
    ELSE LET i == CHOOSE p \in positions : TRUE
         IN  (IF recommendation_type = "context-aware"
              THEN SimilarityAt(i) ELSE Scale)
             + HistoryWeight(positions \ {i}, recommendation_type)

=============================================================================
